---- MODULE Spec2Model ----
(***************************************************************************)
(* A model of the two cores of lemon_shark:                                *)
(*   - the kernel heap allocator (src/src/allocator.rs): an intrusive,     *)
(*     address-ordered free list with first-fit allocation, splitting and  *)
(*     eager coalescing;                                                   *)
(*   - the block filesystem (src/src/filesystem.rs, src/src/bitmap.rs)     *)
(*     over a byte-addressed block device.                                 *)
(* Spec is the allocator. SpecFs is the filesystem over a blank device;    *)
(* SpecFsFull starts it with a root directory one entry short of full,     *)
(* SpecFsFile with a file and a directory to write to, SpecFsMount over    *)
(* blank and foreign devices, SpecFsTwoFiles with two files that are        *)
(* appended to in turn. SpecLayout is the loop of Layout::new,       *)
(* SpecBitmap the calls of a Bitmap value.                                 *)
(***************************************************************************)
EXTENDS Integers, Sequences, FiniteSets, TLC

VARIABLES
    \* ---- allocator (src/src/allocator.rs) ----
    bounds,     \* HeapBounds {start, end}: the linker symbols
    inited,     \* FreeListAllocator::init has run
    head,       \* FreeListAllocator.head (NoBlock = None)
    fb,         \* the FreeBlock headers reachable from head: addr -> [size, next]
    live,       \* live allocations: user addr -> the AllocationMetaData written
                \* right before it, and (ghost) the request it answered
    last,       \* ghost: the last allocator call and what it returned
    oom,        \* alloc hit `expect("Out of memory")`: the kernel has panicked
    \* ---- filesystem (src/src/filesystem.rs) ----
    disk,           \* the block device image: block index -> BLOCK_SIZE bytes
    fsys,           \* FS: the Filesystem struct (bitmaps, inode cache, layout)
    fs_initialized, \* FS_INITIALIZED
    fs_panic,       \* a filesystem call panicked: the kernel has halted
    ret,            \* ghost: the last filesystem call and what it returned
    created,        \* ghost: the paths created since boot -> [inode, is_directory]
    snap,           \* ghost: what the last flush saw, while nothing ran since
    boots,          \* ghost: the number of power cycles so far
    calls,          \* ghost: the number of filesystem calls so far
    \* ---- Layout::new (src/src/filesystem.rs) ----
    lay,            \* the locals of a running Layout::new: its argument, its
                    \* data_bitmap_blocks and where it stands
    \* ---- Bitmap (src/src/bitmap.rs) ----
    bmap            \* a Bitmap value and the drain_set iterator borrowed from
                    \* it, with (ghost) the last call and what it returned

allocVars == <<bounds, inited, head, fb, live, last, oom>>

fsVars == <<disk, fsys, fs_initialized, fs_panic, ret, created, snap, boots,
           calls>>

layVars == <<lay>>

bmVars == <<bmap>>

vars == <<bounds, inited, head, fb, live, last, oom,
          disk, fsys, fs_initialized, fs_panic, ret, created, snap, boots,
          calls, lay, bmap>>

Max(a, b) == IF a >= b THEN a ELSE b
Min(a, b) == IF a <= b THEN a ELSE b

\* Function update helpers for the sparse maps of the model.
Put(f, k, v) == [x \in (DOMAIN f) \cup {k} |-> IF x = k THEN v ELSE f[x]]
Drop(f, k) == [x \in (DOMAIN f) \ {k} |-> f[x]]
EmptyMap == [x \in {} |-> 0]

\* LET x == e IN Body(x), with e computed once.
Let(e, Body(_)) == CHOOSE r \in {Body(x) : x \in {e}} : TRUE

(***************************************************************************)
(*                              ALLOCATOR                                  *)
(***************************************************************************)

\* ---- model bounds ----
\* The heap spans HeapUnits 8-byte words.
HeapUnits == 22
\* At most MaxLive allocations are live at a time.
MaxLive == 3

\* ---- program constants ----
NoBlock == 0
MIN_ALIGN == 8
\* mem::size_of::<FreeBlock>() and mem::size_of::<AllocationMetaData>(): two usize.
SizeOfFreeBlock == 16
SizeOfMetaData == 16
\* mem::align_of::<FreeBlock>()
AlignOfFreeBlock == 8

\* The linker places the heap; both an address that is a multiple of every
\* alignment requested here and one that is only 8-aligned are tried.
HeapStarts == {4096, 4096 + 8}
HeapSize == 8 * HeapUnits

\* The layouts the callers ask for: (size, align), align a power of two as
\* core::alloc::Layout guarantees.
AllocSizes == {1, 24}
AllocAligns == {1, 16, 64}

\* align_up: (addr + align - 1) & !(align - 1); for a power of two this is
\* rounding up to the next multiple.
AlignUp(addr, align) == ((addr + align - 1) \div align) * align

AlignedPtrNew(addr) == AlignUp(addr, Max(AlignOfFreeBlock, MIN_ALIGN))

\* An aligned pointer that forgets the requested alignment.
AlignedPtrNewWithMinOnly(addr, align) == AlignUp(addr, MIN_ALIGN)

AlignedPtrNewWith(addr, align) == AlignUp(addr, Max(align, MIN_ALIGN))

\* A fit test that forgets the requested size.
CanAllocateNoSize(b, align, size) ==
    LET self_end_addr == b + fb[b].size
        next_possible_addr == b + SizeOfMetaData
        next_possible_addr_aligned == AlignedPtrNewWith(next_possible_addr, align)
    IN  IF self_end_addr >= next_possible_addr_aligned
        THEN next_possible_addr_aligned
        ELSE NoBlock

\* FreeBlock::can_allocate on the block at address b: the aligned user
\* address, or NoBlock (None).
CanAllocate(b, align, size) ==
    LET self_end_addr == b + fb[b].size
        next_possible_addr == b + SizeOfMetaData
        next_possible_addr_aligned == AlignedPtrNewWith(next_possible_addr, align)
    IN  IF self_end_addr >= next_possible_addr_aligned + size
        THEN next_possible_addr_aligned
        ELSE NoBlock

\* A walk that gives up after the first block of the list.
WalkFitHeadOnly(current, prev, align, size) ==
    IF current = NoBlock \/ CanAllocate(current, align, size) = NoBlock
    THEN [block |-> NoBlock, prev |-> NoBlock, ptr |-> NoBlock]
    ELSE [block |-> current, prev |-> prev,
          ptr |-> CanAllocate(current, align, size)]

\* A walk that keeps going after a hit and answers the last block that fits.
RECURSIVE WalkFitLast(_, _, _, _)
WalkFitLast(current, prev, align, size) ==
    IF current = NoBlock
    THEN [block |-> NoBlock, prev |-> NoBlock, ptr |-> NoBlock]
    ELSE IF WalkFitLast(fb[current].next, current, align, size).block # NoBlock
         THEN WalkFitLast(fb[current].next, current, align, size)
         ELSE IF CanAllocate(current, align, size) # NoBlock
              THEN [block |-> current, prev |-> prev,
                    ptr |-> CanAllocate(current, align, size)]
              ELSE [block |-> NoBlock, prev |-> NoBlock, ptr |-> NoBlock]

\* walk_list with alloc's closure: the first block, in list order, that
\* can_allocate accepts, with its predecessor; block = NoBlock when the walk
\* ends without a hit.
RECURSIVE WalkFit(_, _, _, _)
WalkFit(current, prev, align, size) ==
    IF current = NoBlock
    THEN [block |-> NoBlock, prev |-> NoBlock, ptr |-> NoBlock]
    ELSE IF CanAllocate(current, align, size) # NoBlock
         THEN [block |-> current, prev |-> prev,
               ptr |-> CanAllocate(current, align, size)]
         ELSE WalkFit(fb[current].next, current, align, size)

\* walk_list as free() and free_blocks() use it: the blocks in list order.
RECURSIVE WalkList(_)
WalkList(current) ==
    IF current = NoBlock THEN <<>>
    ELSE <<current>> \o WalkList(fb[current].next)

RECURSIVE SumSizes(_)
SumSizes(s) == IF s = <<>> THEN 0 ELSE fb[Head(s)].size + SumSizes(Tail(s))

Free == SumSizes(WalkList(head))

FreeBlocks == Len(WalkList(head))

\* FreeListAllocator::init
AllocatorInit ==
    /\ ~inited
    /\ LET heap_size == bounds.end - bounds.start
           aligned_ptr == AlignedPtrNew(bounds.start)
       IN  /\ fb' = Put(EmptyMap, aligned_ptr,
                        [size |-> heap_size - SizeOfFreeBlock, next |-> NoBlock])
           /\ head' = aligned_ptr
    /\ inited' = TRUE
    /\ last' = [op |-> "init", size |-> 0, align |-> 0, addr |-> NoBlock,
                reuse |-> NoBlock, before |-> 0]
    /\ UNCHANGED <<bounds, live, oom>>
    /\ UNCHANGED <<fsVars, layVars, bmVars>>

\* A threshold of one word: remainders too small for a header are split off.
RequiredSizeOneWord == Min(SizeOfFreeBlock, MIN_ALIGN)

\* Required size for a valid new block.
RequiredSize == Max(SizeOfFreeBlock, SizeOfMetaData)

\* A record that leaves out a right remainder too small for a block.
AllocMetaDataNoRemainder(block, block_size, bytes_left, bytes_right, size) ==
    CASE bytes_left < RequiredSize /\ bytes_right < RequiredSize ->
           [start_addr |-> block, size |-> block_size - bytes_right]
      [] bytes_left >= RequiredSize /\ bytes_right < RequiredSize ->
           [start_addr |-> block + bytes_left,
            size |-> block_size - bytes_left - bytes_right]
      [] bytes_left < RequiredSize /\ bytes_right >= RequiredSize ->
           [start_addr |-> block, size |-> bytes_left + SizeOfMetaData + size]
      [] OTHER ->
           [start_addr |-> block + bytes_left,
            size |-> block_size - bytes_left - bytes_right]

\* A forgotten header: the right-split record leaves out the metadata's size.
AllocMetaDataShort(block, block_size, bytes_left, bytes_right, size) ==
    CASE bytes_left < RequiredSize /\ bytes_right < RequiredSize ->
           [start_addr |-> block, size |-> block_size]
      [] bytes_left >= RequiredSize /\ bytes_right < RequiredSize ->
           [start_addr |-> block + bytes_left, size |-> block_size - bytes_left]
      [] bytes_left < RequiredSize /\ bytes_right >= RequiredSize ->
           [start_addr |-> block, size |-> bytes_left + size]
      [] OTHER ->
           [start_addr |-> block + bytes_left,
            size |-> block_size - bytes_left - bytes_right]

\* The AllocationMetaData alloc writes, by split case (left, right).
AllocMetaData(block, block_size, bytes_left, bytes_right, size) ==
    CASE bytes_left < RequiredSize /\ bytes_right < RequiredSize ->
           [start_addr |-> block, size |-> block_size]
      [] bytes_left >= RequiredSize /\ bytes_right < RequiredSize ->
           [start_addr |-> block + bytes_left, size |-> block_size - bytes_left]
      [] bytes_left < RequiredSize /\ bytes_right >= RequiredSize ->
           [start_addr |-> block, size |-> bytes_left + SizeOfMetaData + size]
      [] OTHER ->
           [start_addr |-> block + bytes_left,
            size |-> block_size - bytes_left - bytes_right]

\* The free list, head and metadata after alloc carved `size` bytes at
\* hit.ptr out of hit.block.
AllocSplit(hit, size) ==
    LET block == hit.block
        prev == hit.prev
        aligned_ptr == hit.ptr
        block_ptr == fb[block]
        bytes_left == (aligned_ptr - SizeOfMetaData) - block
        bytes_right == (block + block_ptr.size) - (aligned_ptr + size)
        left_block == AlignedPtrNew(block)
        right_block == AlignedPtrNew(aligned_ptr + size)
        relink(f, to) == IF prev # NoBlock
                         THEN [f EXCEPT ![prev].next = to]
                         ELSE f
        rehead(to) == IF prev # NoBlock THEN head ELSE to
        md == AllocMetaData(block, block_ptr.size, bytes_left, bytes_right, size)
    IN  CASE bytes_left < RequiredSize /\ bytes_right < RequiredSize ->
               [fb |-> Drop(relink(fb, block_ptr.next), block),
                head |-> rehead(block_ptr.next), md |-> md]
          [] bytes_left >= RequiredSize /\ bytes_right < RequiredSize ->
               [fb |-> Put(Drop(fb, block), left_block,
                           [size |-> bytes_left, next |-> block_ptr.next]),
                head |-> head, md |-> md]
          [] bytes_left < RequiredSize /\ bytes_right >= RequiredSize ->
               [fb |-> relink(Put(Drop(fb, block), right_block,
                                  [size |-> bytes_right, next |-> block_ptr.next]),
                              right_block),
                head |-> rehead(right_block), md |-> md]
          [] OTHER ->
               [fb |-> Put(Put(Drop(fb, block), left_block,
                               [size |-> bytes_left, next |-> right_block]),
                           right_block,
                           [size |-> bytes_right, next |-> block_ptr.next]),
                head |-> head, md |-> md]

\* What `last` records for an alloc: a repeat of the layout that was
\* allocated and freed by the two calls right before it names that address.
ReuseOf(lsize, lalign) ==
    IF last.op = "dealloc" /\ last.size = lsize /\ last.align = lalign
    THEN last.reuse
    ELSE NoBlock

\* FreeListAllocator::alloc(layout)
Alloc(lsize, lalign) ==
    /\ ~oom
    /\ Cardinality(DOMAIN live) < MaxLive
    /\ LET align == Max(lalign, 8)
           size == AlignUp(lsize, 8)
           hit == WalkFit(head, NoBlock, align, size)
       IN  IF hit.block = NoBlock
           THEN /\ oom' = TRUE
                /\ last' = [op |-> "alloc", size |-> lsize, align |-> lalign,
                            addr |-> NoBlock, reuse |-> ReuseOf(lsize, lalign),
                            before |-> FreeBlocks]
                /\ UNCHANGED <<head, fb, live>>
           ELSE LET r == AllocSplit(hit, size)
                IN  /\ fb' = r.fb
                    /\ head' = r.head
                    /\ live' = Put(live, hit.ptr,
                                   [start_addr |-> r.md.start_addr,
                                    size |-> r.md.size,
                                    req_size |-> lsize, req_align |-> lalign])
                    /\ last' = [op |-> "alloc", size |-> lsize, align |-> lalign,
                                addr |-> hit.ptr,
                                reuse |-> ReuseOf(lsize, lalign),
                                before |-> FreeBlocks]
                    /\ oom' = oom
    /\ UNCHANGED <<bounds, inited>>
    /\ UNCHANGED <<fsVars, layVars, bmVars>>

\* A walk that stays at the head of the list.
WalkPrevStay(prev, start_addr) == prev

\* dealloc's walk: the last block whose successor is absent or not below
\* start_addr.
RECURSIVE WalkPrev(_, _)
WalkPrev(prev, start_addr) ==
    IF fb[prev].next # NoBlock /\ fb[prev].next < start_addr
    THEN WalkPrev(fb[prev].next, start_addr)
    ELSE prev

\* A dealloc that never coalesces with its successor.
MergeRightNever(start_addr, size, next) == FALSE

\* A dealloc that never coalesces with its predecessor.
MergeLeftNever(prev, start_addr) == FALSE

\* A dealloc that always grows its predecessor.
MergeLeftAlways(prev, start_addr) == TRUE

\* dealloc's merge tests against the predecessor and the successor.
MergeLeft(prev, start_addr) == prev + fb[prev].size = start_addr

MergeRight(start_addr, size, next) == next # NoBlock /\ start_addr + size = next

\* The free list and head after dealloc returned the region (start_addr, size).
DeallocLink(start_addr, size) ==
    LET new_block == AlignedPtrNew(start_addr)
    IN  IF head = NoBlock
        THEN [fb |-> Put(fb, new_block, [size |-> size, next |-> NoBlock]),
              head |-> new_block]
        ELSE IF start_addr < head
        THEN IF start_addr + size = head
             THEN [fb |-> Put(Drop(fb, head), new_block,
                              [size |-> size + fb[head].size,
                               next |-> fb[head].next]),
                   head |-> new_block]
             ELSE [fb |-> Put(fb, new_block, [size |-> size, next |-> head]),
                   head |-> new_block]
        ELSE LET prev == WalkPrev(head, start_addr)
                 next == fb[prev].next
                 merge_left == MergeLeft(prev, start_addr)
                 merge_right == MergeRight(start_addr, size, next)
             IN  CASE merge_left /\ merge_right ->
                        [fb |-> Drop([fb EXCEPT ![prev] =
                                        [size |-> fb[prev].size + size + fb[next].size,
                                         next |-> fb[next].next]], next),
                         head |-> head]
                   [] merge_left /\ ~merge_right ->
                        [fb |-> [fb EXCEPT ![prev].size = fb[prev].size + size],
                         head |-> head]
                   [] ~merge_left /\ merge_right ->
                        [fb |-> [Put(Drop(fb, next), new_block,
                                     [size |-> size + fb[next].size,
                                      next |-> fb[next].next])
                                 EXCEPT ![prev].next = new_block],
                         head |-> head]
                   [] OTHER ->
                        [fb |-> [Put(fb, new_block, [size |-> size, next |-> next])
                                 EXCEPT ![prev].next = new_block],
                         head |-> head]

\* FreeListAllocator::dealloc(ptr, _layout): ptr is an address alloc returned
\* and that was not freed since (GlobalAlloc's contract).
Dealloc(ptr) ==
    /\ ~oom
    /\ ptr \in DOMAIN live
    /\ LET r == DeallocLink(live[ptr].start_addr, live[ptr].size)
       IN  /\ fb' = r.fb
           /\ head' = r.head
    /\ live' = Drop(live, ptr)
    /\ last' = IF last.op = "alloc" /\ last.addr = ptr
               THEN [op |-> "dealloc", size |-> live[ptr].req_size,
                     align |-> live[ptr].req_align, addr |-> ptr, reuse |-> ptr,
                     before |-> FreeBlocks]
               ELSE [op |-> "dealloc", size |-> 0, align |-> 0,
                     addr |-> NoBlock, reuse |-> NoBlock, before |-> FreeBlocks]
    /\ UNCHANGED <<bounds, inited, oom>>
    /\ UNCHANGED <<fsVars, layVars, bmVars>>

\* The allocator before ALLOCATOR.init(), with the heap at `start`.
AllocatorStart(start) ==
    /\ bounds = [start |-> start, end |-> start + HeapSize]
    /\ inited = FALSE
    /\ head = NoBlock
    /\ fb = EmptyMap
    /\ live = EmptyMap
    /\ last = [op |-> "none", size |-> 0, align |-> 0, addr |-> NoBlock,
               reuse |-> NoBlock, before |-> 0]
    /\ oom = FALSE

(***************************************************************************)
(*                      FILESYSTEM: BYTES AND BLOCKS                       *)
(* The device is modelled byte for byte: a block is a sequence of          *)
(* BLOCK_SIZE bytes, and every structure reaches the device through its    *)
(* to_bytes / from_bytes encoding.                                         *)
(***************************************************************************)

\* ---- program constants ----
BLOCK_SIZE == 512
MAX_INODES == 4096
\* mem::size_of::<INode>(): u32 + 16 * u32 + bool, padded to 4.
SizeOfINode == 72
\* mem::size_of::<DirEntry>(): [u8; 24] + u32.
SizeOfDirEntry == 28
NameLen == 24
\* mem::size_of::<SuperBlock>(): u64 + u32 + u32.
SizeOfSuperBlock == 16
BlocksPerINode == 16
\* RAMDISK_SIZE / BLOCK_SIZE
RamdiskSize == 1048576
TotalBlocks == RamdiskSize \div BLOCK_SIZE
\* A u64 is held as four 16-bit limbs, least significant first, and a
\* bitmap word (u32) as two: TLC's integers stop short of 2^32.
\* 0x4e4f4d454c, "LEMON" in little endian
MAGIC == <<17740, 20301, 78, 0>>
NoMagic == <<0, 0, 0, 0>>
WordZero == <<0, 0>>
\* u32::MAX
WordMax == <<65535, 65535>>
DIR_ENTRY_PER_BLOCK == BLOCK_SIZE \div SizeOfDirEntry
INODES_PER_BLOCK == BLOCK_SIZE \div SizeOfINode
\* ASCII
Slash == 47
Dot == 46

DivCeil(a, b) == (a + b - 1) \div b

Zeros(n) == [i \in 1..n |-> 0]

ZeroBlock == Zeros(BLOCK_SIZE)

\* u32::to_le_bytes / u32::from_le_bytes (off is a 0-based byte offset).
U32ToLe(v) ==
    <<v % 256, (v \div 256) % 256, (v \div 65536) % 256, (v \div 16777216) % 256>>

U32FromLe(bytes, off) ==
    bytes[off + 1] + 256 * bytes[off + 2] + 65536 * bytes[off + 3]
        + 16777216 * bytes[off + 4]

\* The little-endian bytes of a value held in 16-bit limbs, and back.
RECURSIVE LimbsToLe(_)
LimbsToLe(limbs) ==
    IF limbs = <<>> THEN <<>>
    ELSE <<Head(limbs) % 256, Head(limbs) \div 256>> \o LimbsToLe(Tail(limbs))

LimbsFromLe(bytes, off, n) ==
    [k \in 1..n |-> bytes[off + 2 * k - 1] + 256 * bytes[off + 2 * k]]

\* u64::to_le_bytes / ByteReader::read_u64
U64ToLe(v) == LimbsToLe(v)

U64FromLe(bytes, off) == LimbsFromLe(bytes, off, 4)

\* u32::to_le_bytes / from_le_bytes of a bitmap word
WordToLe(w) == LimbsToLe(w)

WordFromLe(bytes, off) == LimbsFromLe(bytes, off, 2)

\* buf[off .. off + len(data)].copy_from_slice(data)
Splice(buf, off, data) ==
    SubSeq(buf, 1, off) \o data \o SubSeq(buf, off + Len(data) + 1, Len(buf))

\* BlockDevice::read_block / write_block on the device image: a block that
\* was never written, or was written with zeros, reads as zeros.
ReadBlock(dev, idx) == IF idx \in DOMAIN dev THEN dev[idx] ELSE ZeroBlock

WriteBlock(dev, idx, data) ==
    Let(dev, LAMBDA d :
    Let(data, LAMBDA b : IF b = ZeroBlock THEN Drop(d, idx) ELSE Put(d, idx, b)))

\* ramdisk::read_block / write_block panic past the end of the device.
BlockInRange(idx) == (idx + 1) * BLOCK_SIZE <= RamdiskSize

(***************************************************************************)
(*                               BITMAP                                    *)
(***************************************************************************)

\* Bitmap::new(bits)
BitmapNew(bits) ==
    [len |-> bits \div 32 + 1, arr |-> [i \in 1..(bits \div 32 + 1) |-> WordZero]]

\* Bitmap::from_bytes: the first word is len, every later 4-byte chunk of
\* the input a word of arr.
BitmapFromBytes(bytes) ==
    [len |-> U32FromLe(bytes, 0),
     arr |-> [i \in 1..(Len(bytes) \div 4 - 1) |-> WordFromLe(bytes, 4 * i)]]

\* Bitmap::to_bytes: len, then the first len words of arr.
RECURSIVE WordsToLe(_, _, _)
WordsToLe(arr, i, n) ==
    IF i > n THEN <<>> ELSE WordToLe(arr[i]) \o WordsToLe(arr, i + 1, n)

BitmapToBytes(bm) == U32ToLe(bm.len) \o WordsToLe(bm.arr, 1, bm.len)

Pow2(b) == 2 ^ b

\* Bit b (0..31) of a word.
BitOf(word, b) == (word[b \div 16 + 1] \div Pow2(b % 16)) % 2

\* word | (1 << b) and word & !(1 << b)
WordSetBit(word, b) ==
    IF BitOf(word, b) = 1 THEN word
    ELSE [word EXCEPT ![b \div 16 + 1] = @ + Pow2(b % 16)]

WordClearBit(word, b) ==
    IF BitOf(word, b) = 0 THEN word
    ELSE [word EXCEPT ![b \div 16 + 1] = @ - Pow2(b % 16)]

\* Bitmap::set / is_set; the index into arr is bounds-checked by Rust.
BitmapIndexOk(bm, index) == index \div 32 + 1 <= Len(bm.arr)

BitmapSet(bm, index) ==
    [bm EXCEPT !.arr[index \div 32 + 1] = WordSetBit(@, index % 32)]

BitmapUnset(bm, index) ==
    [bm EXCEPT !.arr[index \div 32 + 1] = WordClearBit(@, index % 32)]

BitmapIsSet(bm, index) == BitOf(bm.arr[index \div 32 + 1], index % 32) = 1

\* A find_free that answers the first bit of the word it stops at.
TrailingOnesFirstBit(word, b) == b

\* (!bits).trailing_zeros(): the lowest clear bit of bits, from bit b up.
RECURSIVE TrailingOnes(_, _)
TrailingOnes(word, b) ==
    IF b = 32 \/ BitOf(word, b) = 0 THEN b ELSE TrailingOnes(word, b + 1)

\* Bitmap::find_free: -1 stands for None.
RECURSIVE FindFreeFrom(_, _)
FindFreeFrom(arr, i) ==
    IF i > Len(arr) THEN -1
    ELSE IF arr[i] # WordMax THEN (i - 1) * 32 + TrailingOnes(arr[i], 0)
    ELSE FindFreeFrom(arr, i + 1)

BitmapFindFree(bm) == FindFreeFrom(bm.arr, 1)

\* What drain_set's inner from_fn yields for one word until the word is 0:
\* trailing_zeros, lowest set bit first, each bit cleared once yielded; that
\* is the indices of the word's set bits in ascending order.
WordBits(word, base) ==
    Let(SelectSeq([b \in 1..32 |-> b - 1], LAMBDA b : BitOf(word, b) = 1),
        LAMBDA set : [k \in 1..Len(set) |-> base + set[k]])

\* Bitmap::drain_set consumed to the end: the flat_map over the words lo..hi
\* of arr, the set bits in ascending order.
RECURSIVE DrainFrom(_, _, _)
DrainFrom(arr, lo, hi) ==
    IF lo > hi THEN <<>>
    ELSE IF lo = hi THEN WordBits(arr[lo], (lo - 1) * 32)
    ELSE DrainFrom(arr, lo, (lo + hi) \div 2)
             \o DrainFrom(arr, (lo + hi) \div 2 + 1, hi)

BitmapDrainSet(bm) == DrainFrom(bm.arr, 1, Len(bm.arr))

BitmapDrained(bm) == [bm EXCEPT !.arr = [i \in 1..Len(bm.arr) |-> WordZero]]

\* n.trailing_zeros(): the lowest set bit of the word, from bit b up.
RECURSIVE TrailingZeros(_, _)
TrailingZeros(word, b) ==
    IF b = 32 \/ BitOf(word, b) = 1 THEN b ELSE TrailingZeros(word, b + 1)

\* The word the flat_map comes to rest on: the first one from `at` on (from
\* the first word when nothing was pulled yet) whose from_fn has an item,
\* that is, which is not 0; Len(arr) + 1 when iter_mut runs out first.
DrainWord(arr, at) ==
    Let({w \in Max(at, 1) .. Len(arr) : arr[w] # WordZero}, LAMBDA rest :
        IF rest = {} THEN Len(arr) + 1
        ELSE CHOOSE w \in rest : \A v \in rest : w <= v)

\* A from_fn that drops the rest of the word with the bit it yields.
DrainNextClearWord(arr, at) ==
    Let(DrainWord(arr, at), LAMBDA w :
        IF w > Len(arr) THEN [arr |-> arr, at |-> w, item |-> -1]
        ELSE [arr |-> [arr EXCEPT ![w] = WordZero], at |-> w,
              item |-> (w - 1) * 32 + TrailingZeros(arr[w], 0)])

\* One next() on the iterator drain_set returns. `at` is the word the
\* flat_map's current from_fn stands on: 0 before the first next(),
\* Len(arr) + 1 once iter_mut is used up. A from_fn whose word is 0 ends and
\* the flat_map moves on to the next word; otherwise it yields the word's
\* lowest set bit and clears it. item = -1 stands for None.
DrainNext(arr, at) ==
    Let(DrainWord(arr, at), LAMBDA w :
        IF w > Len(arr) THEN [arr |-> arr, at |-> w, item |-> -1]
        ELSE [arr |-> [arr EXCEPT ![w] = WordClearBit(@, TrailingZeros(@, 0))],
              at |-> w,
              item |-> (w - 1) * 32 + TrailingZeros(arr[w], 0)])

\* No Bitmap under test.
NoBitmap == [len |-> 0, arr |-> <<>>]

NoBitmapRun == [bm |-> NoBitmap, at |-> -1, op |-> "idle", res |-> -1,
                after |-> -1, back |-> NoBitmap, pre |-> NoBitmap, out |-> <<>>,
                calls |-> 0]

\* The set bits of a bitmap, as a set.
SetBits(bm) == Let(BitmapDrainSet(bm), LAMBDA s : {s[k] : k \in 1..Len(s)})

(***************************************************************************)
(*                               LAYOUT                                    *)
(***************************************************************************)

BITS_PER_BLOCK == BLOCK_SIZE * 8
SUPERBLOCK_BLOCKS == 1
INODE_BITMAP_BLOCKS == DivCeil(MAX_INODES, BITS_PER_BLOCK)
INODE_BLOCKS == DivCeil(MAX_INODES, INODES_PER_BLOCK)
LayoutFixed == SUPERBLOCK_BLOCKS + INODE_BITMAP_BLOCKS + INODE_BLOCKS

\* The fixed-point loop of Layout::new.
RECURSIVE LayoutLoop(_, _)
LayoutLoop(total_blocks, data_bitmap_blocks) ==
    LET data_start == LayoutFixed + data_bitmap_blocks
        data_blocks == total_blocks - data_start
        next == DivCeil(data_blocks, BITS_PER_BLOCK)
    IN  IF next = data_bitmap_blocks
        THEN [data_start |-> data_start, data_blocks |-> data_blocks,
              data_bitmap_blocks |-> data_bitmap_blocks]
        ELSE LayoutLoop(total_blocks, next)

\* Layout::new(total_blocks)
LayoutNew(total_blocks) ==
    LET r == LayoutLoop(total_blocks,
                        DivCeil(total_blocks - LayoutFixed, BITS_PER_BLOCK))
    IN  [inode_bitmap_start |-> 1,
         inode_bitmap_blocks |-> INODE_BITMAP_BLOCKS,
         data_bitmap_start |-> 1 + INODE_BITMAP_BLOCKS,
         data_bitmap_blocks |-> r.data_bitmap_blocks,
         inode_table_start |-> 1 + INODE_BITMAP_BLOCKS + r.data_bitmap_blocks,
         inode_table_blocks |-> INODE_BLOCKS,
         data_start |-> r.data_start,
         data_blocks |-> r.data_blocks]

\* ---- Layout::new, one turn of its loop at a time ----
\* lay.pc is "idle" (no call), "loop" (at the head of the loop) or "done"
\* (after the break).
NoLayoutRun == [pc |-> "idle", total_blocks |-> 0, data_bitmap_blocks |-> 0]

\* The call has reached the loop: data_bitmap_blocks holds its first guess.
LayoutEntered(total_blocks) ==
    [pc |-> "loop", total_blocks |-> total_blocks,
     data_bitmap_blocks |-> DivCeil(total_blocks - LayoutFixed, BITS_PER_BLOCK)]

\* A data_start that leaves out the data bitmap.
LayoutDataStartNoBitmap == LayoutFixed

\* data_start, data_blocks and next of the current turn.
LayoutDataStart == LayoutFixed + lay.data_bitmap_blocks
LayoutDataBlocks == lay.total_blocks - LayoutDataStart
LayoutNextCount == DivCeil(LayoutDataBlocks, BITS_PER_BLOCK)

\* The Layout the call returns once the loop has broken with the current
\* data_start and data_blocks.
LayoutReturned ==
    [inode_bitmap_start |-> 1,
     inode_bitmap_blocks |-> INODE_BITMAP_BLOCKS,
     data_bitmap_start |-> 1 + INODE_BITMAP_BLOCKS,
     data_bitmap_blocks |-> lay.data_bitmap_blocks,
     inode_table_start |-> 1 + INODE_BITMAP_BLOCKS + lay.data_bitmap_blocks,
     inode_table_blocks |-> INODE_BLOCKS,
     data_start |-> LayoutDataStart,
     data_blocks |-> LayoutDataBlocks]

\* if next == data_bitmap_blocks { break (data_start, data_blocks) }
LayoutBreak ==
    /\ lay.pc = "loop"
    /\ LayoutNextCount = lay.data_bitmap_blocks
    /\ lay' = [lay EXCEPT !.pc = "done"]
    /\ UNCHANGED <<allocVars, fsVars, bmVars>>

\* data_bitmap_blocks = next, and around again
LayoutRetry ==
    /\ lay.pc = "loop"
    /\ LayoutNextCount # lay.data_bitmap_blocks
    /\ lay' = [lay EXCEPT !.data_bitmap_blocks = LayoutNextCount]
    /\ UNCHANGED <<allocVars, fsVars, bmVars>>

\* Layout::inode_to_block: (block index, byte offset)
INodeToBlock(layout, inode) ==
    [block |-> layout.inode_table_start + inode \div INODES_PER_BLOCK,
     offset |-> (inode % INODES_PER_BLOCK) * SizeOfINode]

\* Layout::data_block: DataBlockIndex::new(data_start, val); 0 is None.
DataBlock(layout, val) == layout.data_start + val

(***************************************************************************)
(*                  INODE, DIRENTRY, SUPERBLOCK ENCODINGS                  *)
(***************************************************************************)

\* blocks: sixteen DataBlockIndex, 0 standing for None.
NoBlocks == Zeros(BlocksPerINode)

\* INode::empty_directory / INode::empty_file
EmptyDirectory == [size |-> 0, blocks |-> NoBlocks, is_directory |-> TRUE]

EmptyFile == [size |-> 0, blocks |-> NoBlocks, is_directory |-> FALSE]

RECURSIVE BlocksToLe(_, _)
BlocksToLe(blocks, i) ==
    IF i > BlocksPerINode THEN <<>>
    ELSE U32ToLe(blocks[i]) \o BlocksToLe(blocks, i + 1)

\* INode::to_bytes
INodeToBytes(inode) ==
    U32ToLe(inode.size) \o BlocksToLe(inode.blocks, 1)
        \o <<IF inode.is_directory THEN 1 ELSE 0>> \o <<0, 0, 0>>

\* INode::from_bytes
INodeFromBytes(bytes) ==
    [size |-> U32FromLe(bytes, 0),
     blocks |-> [i \in 1..BlocksPerINode |-> U32FromLe(bytes, 4 * i)],
     is_directory |-> bytes[69] # 0]

\* DirEntry::new: the name cut to 24 bytes and NUL-padded.
DirEntryNew(name_string, inode) ==
    LET len == Min(Len(name_string), NameLen)
    IN  [name |-> SubSeq(name_string, 1, len) \o Zeros(NameLen - len),
         inode |-> inode]

\* DirEntry::to_bytes / DirEntry::from_bytes
DirEntryToBytes(entry) == entry.name \o U32ToLe(entry.inode)

DirEntryFromBytes(bytes) ==
    [name |-> SubSeq(bytes, 1, NameLen), inode |-> U32FromLe(bytes, NameLen)]

\* SuperBlock::to_bytes / SuperBlock::from_bytes
SuperBlockToBytes(sb) ==
    U64ToLe(sb.magic) \o U32ToLe(sb.block_size) \o U32ToLe(sb.total_blocks)

SuperBlockFromBytes(bytes) ==
    [magic |-> U64FromLe(bytes, 0), block_size |-> U32FromLe(bytes, 8),
     total_blocks |-> U32FromLe(bytes, 12)]

\* bytes.iter().take_while(|b| b != 0).count()
RECURSIVE NonZeroPrefix(_, _)
NonZeroPrefix(bytes, i) ==
    IF i > Len(bytes) \/ bytes[i] = 0 THEN i - 1 ELSE NonZeroPrefix(bytes, i + 1)

\* Filesystem::byte_compare
ByteCompare(s, bytes) ==
    LET len == NonZeroPrefix(bytes, 1)
        offset == IF bytes[1] = Slash THEN 1 ELSE 0
    IN  s = SubSeq(bytes, offset + 1, len)

\* name.split('/'): the pieces between the slashes, empty ones included.
RECURSIVE SplitFrom(_, _, _)
SplitFrom(name, i, cur) ==
    IF i > Len(name) THEN <<cur>>
    ELSE IF name[i] = Slash THEN <<cur>> \o SplitFrom(name, i + 1, <<>>)
    ELSE SplitFrom(name, i + 1, Append(cur, name[i]))

SplitPath(name) == SplitFrom(name, 1, <<>>)

(***************************************************************************)
(*                    INODE CACHE AND FILESYSTEM STEPS                     *)
(* The steps below are functions of F, the Filesystem struct together with *)
(* the device image it owns:                                               *)
(*   F.dev           device image: block index -> BLOCK_SIZE bytes         *)
(*   F.inode_bitmap, F.data_bitmap      Bitmap {len, arr}                  *)
(*   F.inodes        INodeCache.inodes: Vec<Option<INode>>, an entry is    *)
(*                   <<>> (None) or <<inode>> (Some)                       *)
(*   F.dirty         INodeCache.dirty                                      *)
(*   F.layout        Layout                                                *)
(*   F.panic         a panic was raised: the kernel halts, what was        *)
(*                   written before it stays written                       *)
(***************************************************************************)

\* Vec::resize_with(index + 1, Default::default) when the Vec is too short.
Resized(inodes, index) ==
    IF Len(inodes) <= index
    THEN inodes \o [i \in 1..(index + 1 - Len(inodes)) |-> <<>>]
    ELSE inodes

\* INodeCache::read_from_disk
ReadFromDisk(F, index) ==
    Let(INodeToBlock(F.layout, index), LAMBDA at :
    Let(ReadBlock(F.dev, at.block), LAMBDA buf :
    Let(SubSeq(buf, at.offset + 1, at.offset + SizeOfINode), LAMBDA bytes :
        INodeFromBytes(bytes))))

\* A get that fetches the inode from the device on every call.
CacheGetTracedAlwaysRead(F, index) ==
    Let(Resized(F.inodes, index), LAMBDA inodes :
        IF ~BlockInRange(INodeToBlock(F.layout, index).block)
        THEN [F |-> [F EXCEPT !.inodes = inodes, !.panic = TRUE],
              reads |-> <<INodeToBlock(F.layout, index).block>>]
        ELSE [F |-> [F EXCEPT !.inodes =
                       [inodes EXCEPT ![index + 1] = <<ReadFromDisk(F, index)>>]],
              reads |-> <<INodeToBlock(F.layout, index).block>>])

\* INodeCache::get with the read_block calls it issues: [F, reads], F the
\* cache after the call and reads the block indices handed to
\* device.read_block, in order. The inode returned is INodeAt(F, index).
CacheGetTraced(F, index) ==
    Let(Resized(F.inodes, index), LAMBDA inodes :
        IF inodes[index + 1] # <<>>
        THEN [F |-> [F EXCEPT !.inodes = inodes], reads |-> <<>>]
        ELSE IF ~BlockInRange(INodeToBlock(F.layout, index).block)
        THEN [F |-> [F EXCEPT !.inodes = inodes, !.panic = TRUE],
              reads |-> <<INodeToBlock(F.layout, index).block>>]
        ELSE [F |-> [F EXCEPT !.inodes =
                       [inodes EXCEPT ![index + 1] = <<ReadFromDisk(F, index)>>]],
              reads |-> <<INodeToBlock(F.layout, index).block>>])

\* INodeCache::get: the cache after the call.
CacheGet(F, index) == CacheGetTraced(F, index).F

\* A get_mut that hands the inode out without marking it dirty.
CacheGetMutTracedNoDirty(F, index) == CacheGetTraced(F, index)

\* INodeCache::get_mut with its read_block calls: get, and the dirty bit of
\* index set.
CacheGetMutTraced(F, index) ==
    Let(CacheGetTraced(F, index), LAMBDA g :
        [F |-> IF g.F.panic THEN g.F
               ELSE IF ~BitmapIndexOk(g.F.dirty, index)
               THEN [g.F EXCEPT !.panic = TRUE]
               ELSE [g.F EXCEPT !.dirty = BitmapSet(@, index)],
         reads |-> g.reads])

\* INodeCache::get_mut: the cache after the call.
CacheGetMut(F, index) == CacheGetMutTraced(F, index).F

INodeAt(F, index) == F.inodes[index + 1][1]

\* INodeCache::register_new_inode
RegisterNewINode(F, index, inode) ==
    [F EXCEPT !.inodes = [Resized(F.inodes, index) EXCEPT ![index + 1] = <<inode>>]]

\* Filesystem::write_inode_to_disk: read-modify-write of the inode's block.
WriteINodeToDisk(F, index, inode) ==
    Let(INodeToBlock(F.layout, index), LAMBDA at :
    Let(ReadBlock(F.dev, at.block), LAMBDA buf :
    Let(Splice(buf, at.offset, INodeToBytes(inode)), LAMBDA new :
        [F EXCEPT !.dev = WriteBlock(F.dev, at.block, new)])))

\* new_inode taking the index after the lowest free one.
NewINodeSkip(F, inode) ==
    Let(BitmapFindFree(F.inode_bitmap), LAMBDA found :
        IF found = -1 THEN [F |-> [F EXCEPT !.panic = TRUE], index |-> 0]
        ELSE
        Let(found + 1, LAMBDA free :
        Let([F EXCEPT !.inode_bitmap = BitmapSet(@, free)], LAMBDA F1 :
        Let(WriteINodeToDisk(F1, free, inode), LAMBDA F2 :
            [F |-> RegisterNewINode(F2, free, inode), index |-> free]))))

\* Filesystem::new_inode: [F, index]
NewINode(F, inode) ==
    Let(BitmapFindFree(F.inode_bitmap), LAMBDA free :
        IF free = -1 THEN [F |-> [F EXCEPT !.panic = TRUE], index |-> 0]
        ELSE
        Let([F EXCEPT !.inode_bitmap = BitmapSet(@, free)], LAMBDA F1 :
        Let(WriteINodeToDisk(F1, free, inode), LAMBDA F2 :
            [F |-> RegisterNewINode(F2, free, inode), index |-> free])))

\* Filesystem::write_dir_entry: [F, res], res "Ok", "NoSpaceForDirEntry" or
\* "panic".
WriteDirEntry(F, entry, inode_index) ==
    Let(CacheGetMut(F, inode_index), LAMBDA F1 :
    IF F1.panic THEN [F |-> F1, res |-> "panic"]
    ELSE
    Let(INodeAt(F1, inode_index).size \div SizeOfDirEntry, LAMBDA current_entries :
    Let(current_entries \div DIR_ENTRY_PER_BLOCK, LAMBDA slot :
    IF slot >= BlocksPerINode THEN [F |-> F1, res |-> "NoSpaceForDirEntry"]
    ELSE
    Let(BitmapFindFree(F1.data_bitmap), LAMBDA free :
    Let(INodeAt(F1, inode_index).blocks[slot + 1] = 0, LAMBDA fresh :
    IF fresh /\ free = -1 THEN [F |-> [F1 EXCEPT !.panic = TRUE], res |-> "panic"]
    ELSE
    Let(IF fresh
        THEN [F1 EXCEPT !.data_bitmap = BitmapSet(@, free),
                        !.inodes[inode_index + 1][1].blocks[slot + 1] =
                            DataBlock(F1.layout, free)]
        ELSE F1, LAMBDA F2 :
    Let(INodeAt(F2, inode_index).blocks[slot + 1], LAMBDA data_block_index :
    Let((current_entries % DIR_ENTRY_PER_BLOCK) * SizeOfDirEntry,
        LAMBDA offset_in_block :
    IF ~BlockInRange(data_block_index)
    THEN [F |-> [F2 EXCEPT !.panic = TRUE], res |-> "panic"]
    ELSE
    Let(ReadBlock(F2.dev, data_block_index), LAMBDA buf :
    Let(Splice(buf, offset_in_block, DirEntryToBytes(entry)), LAMBDA new :
        [F |-> [F2 EXCEPT !.dev = WriteBlock(F2.dev, data_block_index, new),
                          !.inodes[inode_index + 1][1].size = @ + SizeOfDirEntry],
         res |-> "Ok"]))))))))))

\* The assigned slots of an inode, in slot order.
RECURSIVE AssignedBlocks(_, _)
AssignedBlocks(blocks, i) ==
    IF i > Len(blocks) THEN <<>>
    ELSE (IF blocks[i] = 0 THEN <<>> ELSE <<blocks[i]>>)
             \o AssignedBlocks(blocks, i + 1)

\* The entries a block of a directory holds, the first n of them.
BlockEntries(buf, n) ==
    [i \in 1..n |-> DirEntryFromBytes(SubSeq(buf, (i - 1) * SizeOfDirEntry + 1,
                                             i * SizeOfDirEntry))]

\* The loop of read_dir_entry over the assigned blocks.
RECURSIVE ReadDirLoop(_, _, _, _)
ReadDirLoop(dev, blks, max_items, res) ==
    IF blks = <<>> THEN res
    ELSE Let(ReadBlock(dev, Head(blks)), LAMBDA buf :
         Let(res \o BlockEntries(buf, Min(max_items - Len(res), DIR_ENTRY_PER_BLOCK)),
             LAMBDA res2 :
             IF Len(res2) = max_items THEN res2
             ELSE ReadDirLoop(dev, Tail(blks), max_items, res2)))

\* Filesystem::read_dir_entry: [F, entries]
ReadDirEntry(F, inode_index) ==
    Let(CacheGet(F, inode_index), LAMBDA F1 :
        IF F1.panic THEN [F |-> F1, entries |-> <<>>]
        ELSE Let(INodeAt(F1, inode_index), LAMBDA inode :
             IF inode.size = 0 THEN [F |-> F1, entries |-> <<>>]
             ELSE Let(AssignedBlocks(inode.blocks, 1), LAMBDA blks :
                  [F |-> F1,
                   entries |-> ReadDirLoop(F1.dev, blks,
                                           inode.size \div SizeOfDirEntry, <<>>)])))

\* iter().find(|e| byte_compare(name, &e.name)): the position of the first
\* match, 0 when there is none.
FindEntry(entries, name) ==
    Let({i \in 1..Len(entries) : ByteCompare(name, entries[i].name)}, LAMBDA hits :
        IF hits = {} THEN 0 ELSE CHOOSE i \in hits : \A j \in hits : i <= j)

\* The path walk going on in the directory it stands in when a component
\* names no entry of it.
RECURSIVE WalkPathLenient(_, _, _, _)
WalkPathLenient(F, path, current_index, prev_index) ==
    IF path = <<>>
    THEN [F |-> F, res |-> "Ok", current |-> current_index, prev |-> prev_index]
    ELSE Let(ReadDirEntry(F, current_index), LAMBDA r :
         Let(FindEntry(r.entries, Head(path)), LAMBDA k :
             IF r.F.panic
             THEN [F |-> r.F, res |-> "panic", current |-> 0, prev |-> 0]
             ELSE IF k = 0
             THEN WalkPathLenient(r.F, Tail(path), current_index, prev_index)
             ELSE Let(r.entries[k].inode, LAMBDA next :
                      WalkPathLenient(r.F, Tail(path), next, current_index))))

\* The path walk of new_dir_entry: [F, res, current, prev].
RECURSIVE WalkPath(_, _, _, _)
WalkPath(F, path, current_index, prev_index) ==
    IF path = <<>>
    THEN [F |-> F, res |-> "Ok", current |-> current_index, prev |-> prev_index]
    ELSE Let(ReadDirEntry(F, current_index), LAMBDA r :
         Let(FindEntry(r.entries, Head(path)), LAMBDA k :
             IF r.F.panic
             THEN [F |-> r.F, res |-> "panic", current |-> 0, prev |-> 0]
             ELSE IF k = 0
             THEN [F |-> r.F, res |-> "DirectoryDoesNotExist", current |-> 0,
                   prev |-> 0]
             ELSE Let(r.entries[k].inode, LAMBDA next :
                      WalkPath(r.F, Tail(path), next, current_index))))

\* The "." and ".." names.
DotName == <<Dot>>
DotDotName == <<Dot, Dot>>

\* result.unwrap(): an Err panics.
Unwrap(w) == IF w.res # "Ok" THEN [w.F EXCEPT !.panic = TRUE] ELSE w.F

\* The tail of new_dir_entry, after the new inode was written: the entry in
\* the parent, then "." and ".." for a directory. Each write_dir_entry is
\* unwrapped.
LinkNewEntry(F, new_entry, inode_index, is_directory, current_index, prev_index) ==
    Let(WriteDirEntry(F, DirEntryNew(new_entry, inode_index), current_index),
        LAMBDA w1 :
        IF w1.res # "Ok" \/ ~is_directory THEN Unwrap(w1)
        ELSE
        Let(WriteDirEntry(w1.F, DirEntryNew(DotName, inode_index), inode_index),
            LAMBDA w2 :
            IF w2.res # "Ok" THEN Unwrap(w2)
            ELSE
            Let(WriteDirEntry(w2.F, DirEntryNew(DotDotName, prev_index), inode_index),
                LAMBDA w3 : Unwrap(w3))))

\* Filesystem::new_dir_entry(name, entry_type): [F, res, val]; res is "Ok"
\* (val the new inode index), an Error, or "panic".
NewDirEntry(F, name, is_directory) ==
    Let(SplitPath(name), LAMBDA parts :
    IF Len(parts) < 2
    THEN [F |-> [F EXCEPT !.panic = TRUE], res |-> "panic", val |-> 0]
    ELSE
    Let(parts[Len(parts)], LAMBDA new_entry :
    Let(WalkPath(F, SubSeq(parts, 2, Len(parts) - 1), 0, 0), LAMBDA w :
    IF w.res # "Ok" THEN [F |-> w.F, res |-> w.res, val |-> 0]
    ELSE
    Let(ReadDirEntry(w.F, w.current), LAMBDA r :
    IF r.F.panic THEN [F |-> r.F, res |-> "panic", val |-> 0]
    ELSE IF FindEntry(r.entries, new_entry) # 0
    THEN [F |-> r.F, res |-> "DuplicatedEntry", val |-> 0]
    ELSE
    Let(NewINode(r.F, IF is_directory THEN EmptyDirectory ELSE EmptyFile),
        LAMBDA n :
    IF n.F.panic THEN [F |-> n.F, res |-> "panic", val |-> 0]
    ELSE
    Let(LinkNewEntry(n.F, new_entry, n.index, is_directory, w.current, w.prev),
        LAMBDA F2 :
        IF F2.panic THEN [F |-> F2, res |-> "panic", val |-> 0]
        ELSE [F |-> F2, res |-> "Ok", val |-> n.index]))))))

\* create_empty_root writing "." alone.
CreateEmptyRootDotOnly(F) ==
    Let(NewINode(F, EmptyDirectory), LAMBDA n :
        IF n.F.panic THEN n.F
        ELSE
        Let(WriteDirEntry(n.F, DirEntryNew(DotName, n.index), n.index), LAMBDA w1 :
            Unwrap(w1)))

\* Filesystem::create_empty_root
CreateEmptyRoot(F) ==
    Let(NewINode(F, EmptyDirectory), LAMBDA n :
        IF n.F.panic THEN n.F
        ELSE
        Let(WriteDirEntry(n.F, DirEntryNew(DotName, n.index), n.index), LAMBDA w1 :
            IF w1.res # "Ok" THEN Unwrap(w1)
            ELSE
            Let(WriteDirEntry(w1.F, DirEntryNew(DotDotName, n.index), n.index),
                LAMBDA w2 : Unwrap(w2))))

\* An append that takes the first data block whatever the bitmap says.
AppendAssignFirstBlock(F, inode_index, slot, free) ==
    [F EXCEPT !.data_bitmap = BitmapSet(@, 0),
              !.inodes[inode_index + 1][1].blocks[slot + 1] =
                  DataBlock(F.layout, 0)]

\* An append that leaves the bit of the block it takes clear.
AppendAssignNoSet(F, inode_index, slot, free) ==
    [F EXCEPT !.inodes[inode_index + 1][1].blocks[slot + 1] =
                  DataBlock(F.layout, free)]

\* An append that puts the block one slot too far.
AppendAssignNextSlot(F, inode_index, slot, free) ==
    [F EXCEPT !.data_bitmap = BitmapSet(@, free),
              !.inodes[inode_index + 1][1].blocks[Min(slot + 2, BlocksPerINode)] =
                  DataBlock(F.layout, free)]

\* append_to_file giving the inode a block for an empty slot: the block
\* find_free answered goes into the slot and its bit is set.
AppendAssign(F, inode_index, slot, free) ==
    [F EXCEPT !.data_bitmap = BitmapSet(@, free),
              !.inodes[inode_index + 1][1].blocks[slot + 1] =
                  DataBlock(F.layout, free)]

\* One turn of the while loop of append_to_file; written is bytes_written.
\* [F, written]
AppendTurn(F, inode_index, bytes, written) ==
    Let(INodeAt(F, inode_index), LAMBDA inode :
    Let(inode.size \div BLOCK_SIZE, LAMBDA slot :
    Let(BitmapFindFree(F.data_bitmap), LAMBDA free :
    Let(inode.blocks[slot + 1] = 0, LAMBDA fresh :
    IF fresh /\ free = -1
    THEN [F |-> [F EXCEPT !.panic = TRUE], written |-> written]
    ELSE
    Let(IF fresh THEN AppendAssign(F, inode_index, slot, free) ELSE F,
        LAMBDA F1 :
    Let(INodeAt(F1, inode_index).blocks[slot + 1], LAMBDA data_block_index :
    Let(inode.size % BLOCK_SIZE, LAMBDA byte_offset :
    Let(Min(Len(bytes) - written, BLOCK_SIZE - byte_offset), LAMBDA bytes_to_write :
    IF ~BlockInRange(data_block_index)
    THEN [F |-> [F1 EXCEPT !.panic = TRUE], written |-> written]
    ELSE
    Let(ReadBlock(F1.dev, data_block_index), LAMBDA buf :
    Let(Splice(buf, byte_offset,
               SubSeq(bytes, written + 1, written + bytes_to_write)), LAMBDA new :
        [F |-> [F1 EXCEPT !.dev = WriteBlock(F1.dev, data_block_index, new),
                          !.inodes[inode_index + 1][1].size = @ + bytes_to_write],
         written |-> written + bytes_to_write]))))))))))

\* The while loop of append_to_file: while total_bytes > 0.
RECURSIVE AppendLoop(_, _, _, _)
AppendLoop(F, inode_index, bytes, written) ==
    IF Len(bytes) - written = 0 \/ F.panic THEN F
    ELSE Let(AppendTurn(F, inode_index, bytes, written), LAMBDA t :
             AppendLoop(t.F, inode_index, bytes, t.written))

\* append_to_file without its is_directory test.
AppendToFileAnyKind(F, inode_index, bytes) ==
    Let(CacheGetMut(F, inode_index), LAMBDA F1 :
        IF F1.panic THEN [F |-> F1, res |-> "panic", val |-> 0]
        ELSE IF INodeAt(F1, inode_index).size + Len(bytes)
                    > BlocksPerINode * BLOCK_SIZE
        THEN [F |-> F1, res |-> "NoSpaceInFile", val |-> 0]
        ELSE Let(AppendLoop(F1, inode_index, bytes, 0), LAMBDA F2 :
                 IF F2.panic THEN [F |-> F2, res |-> "panic", val |-> 0]
                 ELSE [F |-> F2, res |-> "Ok", val |-> Len(bytes)]))

\* append_to_file writing the inode it looked at back to the inode table
\* before it returns an error.
AppendToFileWriteThrough(F, inode_index, bytes) ==
    Let(CacheGetMut(F, inode_index), LAMBDA F1 :
        IF F1.panic THEN [F |-> F1, res |-> "panic", val |-> 0]
        ELSE IF INodeAt(F1, inode_index).is_directory
        THEN [F |-> WriteINodeToDisk(F1, inode_index, INodeAt(F1, inode_index)),
              res |-> "NotAFile", val |-> 0]
        ELSE IF INodeAt(F1, inode_index).size + Len(bytes)
                    > BlocksPerINode * BLOCK_SIZE
        THEN [F |-> WriteINodeToDisk(F1, inode_index, INodeAt(F1, inode_index)),
              res |-> "NoSpaceInFile", val |-> 0]
        ELSE Let(AppendLoop(F1, inode_index, bytes, 0), LAMBDA F2 :
                 IF F2.panic THEN [F |-> F2, res |-> "panic", val |-> 0]
                 ELSE [F |-> F2, res |-> "Ok", val |-> Len(bytes)]))

\* Filesystem::append_to_file: [F, res, val]
AppendToFile(F, inode_index, bytes) ==
    Let(CacheGetMut(F, inode_index), LAMBDA F1 :
        IF F1.panic THEN [F |-> F1, res |-> "panic", val |-> 0]
        ELSE IF INodeAt(F1, inode_index).is_directory
        THEN [F |-> F1, res |-> "NotAFile", val |-> 0]
        ELSE IF INodeAt(F1, inode_index).size + Len(bytes)
                    > BlocksPerINode * BLOCK_SIZE
        THEN [F |-> F1, res |-> "NoSpaceInFile", val |-> 0]
        ELSE Let(AppendLoop(F1, inode_index, bytes, 0), LAMBDA F2 :
                 IF F2.panic THEN [F |-> F2, res |-> "panic", val |-> 0]
                 ELSE [F |-> F2, res |-> "Ok", val |-> Len(bytes)]))

\* ---- str::from_utf8 ----
\* A continuation byte, and the length of the sequence a lead byte opens
\* (0: the byte opens none).
Utf8Cont(b) == b >= 128 /\ b <= 191

Utf8Width(b) ==
    IF b < 128 THEN 1
    ELSE IF b >= 194 /\ b <= 223 THEN 2
    ELSE IF b >= 224 /\ b <= 239 THEN 3
    ELSE IF b >= 240 /\ b <= 244 THEN 4
    ELSE 0

\* The second byte of a sequence: no overlong form, no surrogate, nothing
\* above U+10FFFF.
Utf8Second(lead, b) ==
    IF lead = 224 THEN b >= 160 /\ b <= 191
    ELSE IF lead = 237 THEN b >= 128 /\ b <= 159
    ELSE IF lead = 240 THEN b >= 144 /\ b <= 191
    ELSE IF lead = 244 THEN b >= 128 /\ b <= 143
    ELSE Utf8Cont(b)

\* str::from_utf8(bytes).is_ok(): every lead byte opens a whole sequence
\* inside bytes, every continuation byte belongs to one.
Utf8Valid(bytes) ==
    \A i \in 1..Len(bytes) :
        IF Utf8Cont(bytes[i])
        THEN \E j \in Max(1, i - 3)..(i - 1) :
                 /\ ~Utf8Cont(bytes[j])
                 /\ j + Utf8Width(bytes[j]) - 1 >= i
                 /\ \A k \in (j + 1)..i : Utf8Cont(bytes[k])
        ELSE /\ Utf8Width(bytes[i]) > 0
             /\ i + Utf8Width(bytes[i]) - 1 <= Len(bytes)
             /\ \A k \in 1..(Utf8Width(bytes[i]) - 1) :
                    IF k = 1 THEN Utf8Second(bytes[i], bytes[i + 1])
                    ELSE Utf8Cont(bytes[i + k])

\* The loop of read_file over the assigned blocks: the bytes pushed.
RECURSIVE ReadFileLoop(_, _, _)
ReadFileLoop(dev, blks, total_bytes) ==
    IF blks = <<>> THEN <<>>
    ELSE Let(Min(total_bytes, BLOCK_SIZE), LAMBDA valid_bytes :
             SubSeq(ReadBlock(dev, Head(blks)), 1, valid_bytes)
                 \o ReadFileLoop(dev, Tail(blks), total_bytes - valid_bytes))

\* The same loop: every str::from_utf8(&buf[..valid_bytes]) is Ok, so that
\* no unwrap panics.
RECURSIVE ReadFileUtf8(_, _, _)
ReadFileUtf8(dev, blks, total_bytes) ==
    IF blks = <<>> THEN TRUE
    ELSE Let(Min(total_bytes, BLOCK_SIZE), LAMBDA valid_bytes :
             /\ Utf8Valid(SubSeq(ReadBlock(dev, Head(blks)), 1, valid_bytes))
             /\ ReadFileUtf8(dev, Tail(blks), total_bytes - valid_bytes))

\* Filesystem::read_file: [F, res, content]
ReadFile(F, inode_index) ==
    Let(CacheGetMut(F, inode_index), LAMBDA F1 :
        IF F1.panic THEN [F |-> F1, res |-> "panic", content |-> <<>>]
        ELSE
        Let(INodeAt(F1, inode_index), LAMBDA inode :
            IF inode.is_directory
            THEN [F |-> [F1 EXCEPT !.panic = TRUE], res |-> "panic",
                  content |-> <<>>]
            ELSE Let(AssignedBlocks(inode.blocks, 1), LAMBDA blks :
                     IF ~ReadFileUtf8(F1.dev, blks, inode.size)
                     THEN [F |-> [F1 EXCEPT !.panic = TRUE], res |-> "panic",
                           content |-> <<>>]
                     ELSE [F |-> F1, res |-> "Ok",
                           content |-> ReadFileLoop(F1.dev, blks, inode.size)])))

\* A flush that writes the first dirty inode only.
WriteDirtyFirstOnly(F, dirty) ==
    IF dirty = <<>> THEN F
    ELSE WriteINodeToDisk(F, Head(dirty), INodeAt(F, Head(dirty)))

\* flush, first part: every dirty inode, in ascending order, written to its
\* slot of the inode table.
RECURSIVE WriteDirty(_, _)
WriteDirty(F, dirty) ==
    IF dirty = <<>> THEN F
    ELSE Let(WriteINodeToDisk(F, Head(dirty), INodeAt(F, Head(dirty))), LAMBDA F1 :
             WriteDirty(F1, Tail(dirty)))

\* Vec::extend with zeros up to the next multiple of BLOCK_SIZE.
PadToBlock(bytes) ==
    IF Len(bytes) % BLOCK_SIZE = 0 THEN bytes
    ELSE bytes \o Zeros(BLOCK_SIZE - (Len(bytes) % BLOCK_SIZE))

\* chunks(BLOCK_SIZE).enumerate(): chunk i written to block start_block + i.
RECURSIVE WriteChunks(_, _, _, _)
WriteChunks(dev, bytes, start_block, i) ==
    IF i * BLOCK_SIZE >= Len(bytes) THEN dev
    ELSE Let(WriteBlock(dev, start_block + i,
                        SubSeq(bytes, i * BLOCK_SIZE + 1, (i + 1) * BLOCK_SIZE)),
             LAMBDA dev1 : WriteChunks(dev1, bytes, start_block, i + 1))

\* The bitmap as flush writes it: to_bytes, zero-padded to whole blocks.
BitmapBytes(bm) == Let(BitmapToBytes(bm), LAMBDA bytes : PadToBlock(bytes))

\* Filesystem::write_superblock
WriteSuperBlock(dev, sb) ==
    WriteBlock(dev, 0, Splice(ZeroBlock, 0, SuperBlockToBytes(sb)))

\* Filesystem::flush
Flush(F) ==
    Let(BitmapDrainSet(F.dirty), LAMBDA dirty :
    Let([WriteDirty(F, dirty) EXCEPT !.dirty = BitmapDrained(F.dirty)], LAMBDA F1 :
    Let(WriteSuperBlock(F1.dev, [magic |-> MAGIC, block_size |-> BLOCK_SIZE,
                                 total_blocks |-> TotalBlocks]), LAMBDA d1 :
    Let(BitmapBytes(F1.inode_bitmap), LAMBDA inode_bitmap_vec :
    Let(WriteChunks(d1, inode_bitmap_vec, F1.layout.inode_bitmap_start, 0),
        LAMBDA d2 :
    Let(BitmapBytes(F1.data_bitmap), LAMBDA data_bitmap_vec :
    Let(WriteChunks(d2, data_bitmap_vec, F1.layout.data_bitmap_start, 0),
        LAMBDA d3 : [F1 EXCEPT !.dev = d3])))))))

\* The blocks start .. start + n - 1 of the device, concatenated.
RECURSIVE ReadRegion(_, _, _)
ReadRegion(dev, start, n) ==
    IF n = 0 THEN <<>>
    ELSE ReadBlock(dev, start) \o ReadRegion(dev, start + 1, n - 1)

\* Filesystem::read_superblock's reading of block 0.
SuperBlockOnDisk(dev) ==
    Let(SubSeq(ReadBlock(dev, 0), 1, SizeOfSuperBlock), LAMBDA bytes :
        SuperBlockFromBytes(bytes))

\* The bitmap a region of the device holds.
BitmapOnDisk(dev, start, n) ==
    Let(ReadRegion(dev, start, n), LAMBDA raw : BitmapFromBytes(raw))

\* SuperBlock::default_superblock(block_device)
DefaultSuperBlock ==
    [magic |-> MAGIC, block_size |-> BLOCK_SIZE, total_blocks |-> TotalBlocks]

\* read_superblock taking every magic but MAGIC for an empty disk.
ReadSuperblockAnyMagic(dev) ==
    Let(SuperBlockOnDisk(dev), LAMBDA sb :
        IF sb.magic = MAGIC
        THEN [sb |-> sb, is_initialized |-> TRUE, panic |-> FALSE]
        ELSE [sb |-> DefaultSuperBlock, is_initialized |-> FALSE, panic |-> FALSE])

\* Filesystem::read_superblock: [sb, is_initialized], or the panic
\* "Disk has wrong format".
ReadSuperblock(dev) ==
    Let(SuperBlockOnDisk(dev), LAMBDA sb :
        IF sb.magic = NoMagic
        THEN [sb |-> DefaultSuperBlock, is_initialized |-> FALSE, panic |-> FALSE]
        ELSE IF sb.magic = MAGIC
        THEN [sb |-> sb, is_initialized |-> TRUE, panic |-> FALSE]
        ELSE [sb |-> sb, is_initialized |-> FALSE, panic |-> TRUE])

\* Filesystem::new_with_device; after a panic of read_superblock there is
\* no Filesystem, only the device as it was.
NewWithDevice(dev) ==
    Let(ReadSuperblock(dev), LAMBDA r :
    IF r.panic THEN [dev |-> dev, panic |-> TRUE]
    ELSE
    Let(LayoutNew(r.sb.total_blocks), LAMBDA layout :
        [dev |-> dev,
         inode_bitmap |->
             IF r.is_initialized
             THEN BitmapOnDisk(dev, layout.inode_bitmap_start,
                               layout.inode_bitmap_blocks)
             ELSE BitmapNew(BLOCK_SIZE * layout.inode_bitmap_blocks),
         data_bitmap |->
             IF r.is_initialized
             THEN BitmapOnDisk(dev, layout.data_bitmap_start,
                               layout.data_bitmap_blocks)
             ELSE BitmapNew(BLOCK_SIZE * layout.data_bitmap_blocks),
         inodes |-> <<>>,
         dirty |-> BitmapNew(layout.inode_bitmap_blocks * BLOCK_SIZE),
         layout |-> layout,
         panic |-> FALSE]))

(***************************************************************************)
(*                     FILESYSTEM: STATE AND ACTIONS                       *)
(***************************************************************************)

\* ---- model bounds ----
\* The shell names the inodes 0 .. MaxINodeArg.
MaxINodeArg == 2
\* The machine is shut down and started again at most MaxBoots times.
MaxBoots == 1
\* A file is appended to while it holds fewer than MaxFileBytes bytes.
MaxFileBytes == 4
\* The shell makes at most MaxCalls filesystem calls.
MaxCalls == 5

\* ---- inputs ----
\* "/a", "/a/b", "/f", "/f/x" and "/" followed by 25 letters.
PathA == <<Slash, 97>>
PathAB == <<Slash, 97, Slash, 98>>
PathF == <<Slash, 102>>
PathFX == <<Slash, 102, Slash, 120>>
PathLong == <<Slash>> \o [i \in 1..(NameLen + 1) |-> 110]
Paths == {PathA, PathAB, PathF, PathFX, PathLong}
\* The inode indices the shell passes to write_to_file and read_file.
INodeArgs == 0..MaxINodeArg
\* "hi"
Texts == {<<104, 105>>}

\* FS before init_with_device: LockedFilesystem.inner = None.
NoFs ==
    [inode_bitmap |-> [len |-> 0, arr |-> <<>>],
     data_bitmap |-> [len |-> 0, arr |-> <<>>],
     inodes |-> <<>>,
     dirty |-> [len |-> 0, arr |-> <<>>],
     layout |-> LayoutNew(TotalBlocks)]

\* The Filesystem struct of the state with its device, and back.
Bind(fs, dev) ==
    [dev |-> dev, inode_bitmap |-> fs.inode_bitmap, data_bitmap |-> fs.data_bitmap,
     inodes |-> fs.inodes, dirty |-> fs.dirty, layout |-> fs.layout,
     panic |-> FALSE]

Unbind(F) ==
    [inode_bitmap |-> F.inode_bitmap, data_bitmap |-> F.data_bitmap,
     inodes |-> F.inodes, dirty |-> F.dirty, layout |-> F.layout]

\* The inode record the filesystem holds for an index: the cached one, or
\* the one in the inode table.
INodeView(fs, dev, index) ==
    IF index < Len(fs.inodes) /\ fs.inodes[index + 1] # <<>>
    THEN fs.inodes[index + 1][1]
    ELSE ReadFromDisk(Bind(fs, dev), index)

\* The directory entries and the file content behind an inode, as
\* read_dir_entry and read_file return them.
EntriesOf(fs, dev, index) == ReadDirEntry(Bind(fs, dev), index).entries

ContentOf(fs, dev, index) ==
    Let(INodeView(fs, dev, index), LAMBDA inode :
    Let(AssignedBlocks(inode.blocks, 1), LAMBDA blks :
        ReadFileLoop(dev, blks, inode.size)))

NoRet == [op |-> "none", path |-> <<>>, inode |-> 0, res |-> "none", val |-> 0,
          data |-> <<>>]

NoSnap == [valid |-> FALSE, inode_bitmap |-> {}, data_bitmap |-> {},
           inodes |-> EmptyMap]

\* What flush leaves for a later mount to find.
SnapOf(fs, dev) ==
    Let(SetBits(fs.inode_bitmap), LAMBDA allocated :
        [valid |-> TRUE,
         inode_bitmap |-> allocated,
         data_bitmap |-> SetBits(fs.data_bitmap),
         inodes |-> [i \in allocated |-> INodeView(fs, dev, i)]])

\* The machine at power-on over a blank device.
FsStart ==
    /\ disk = EmptyMap
    /\ fsys = NoFs
    /\ fs_initialized = FALSE
    /\ fs_panic = FALSE
    /\ ret = NoRet
    /\ created = EmptyMap
    /\ snap = NoSnap
    /\ boots = 0
    /\ calls = 0

FsRunning == fs_initialized /\ ~fs_panic

\* One more call of the filesystem API.
Called ==
    /\ calls < MaxCalls
    /\ calls' = calls + 1

\* An init_with_device without the FS_INITIALIZED guard: every call builds
\* the Filesystem anew.
InitWithDeviceNoFlag ==
    /\ ~fs_panic
    /\ Called
    /\ \E mounted \in {SuperBlockOnDisk(disk).magic = MAGIC},
          F0 \in {NewWithDevice(disk)} :
       \E F1 \in {IF F0.panic THEN F0 ELSE CreateEmptyRoot(F0)} :
           /\ fs_initialized' = TRUE
           /\ fsys' = IF F0.panic THEN fsys ELSE Unbind(F1)
           /\ disk' = F1.dev
           /\ fs_panic' = F1.panic
           /\ ret' = [NoRet EXCEPT !.op = "init",
                        !.res = IF F1.panic THEN "panic"
                                ELSE IF mounted THEN "mount" ELSE "format"]
           /\ snap' = snap
    /\ UNCHANGED <<created, boots>>
    /\ UNCHANGED <<allocVars, layVars, bmVars>>

\* init_with_device(dev): a second call returns at the flag; the first one
\* builds the Filesystem from the device and then creates a root directory.
InitWithDevice ==
    /\ ~fs_panic
    /\ Called
    /\ IF fs_initialized
       THEN /\ ret' = [NoRet EXCEPT !.op = "init", !.res = "again"]
            /\ UNCHANGED <<disk, fsys, fs_initialized, fs_panic, snap>>
       ELSE \E mounted \in {SuperBlockOnDisk(disk).magic = MAGIC},
               F0 \in {NewWithDevice(disk)} :
            \E F1 \in {IF F0.panic THEN F0 ELSE CreateEmptyRoot(F0)} :
                /\ fs_initialized' = TRUE
                /\ fsys' = IF F0.panic THEN fsys ELSE Unbind(F1)
                /\ disk' = F1.dev
                /\ fs_panic' = F1.panic
                /\ ret' = [NoRet EXCEPT !.op = "init",
                             !.res = IF F1.panic THEN "panic"
                                     ELSE IF mounted THEN "mount" ELSE "format"]
                /\ snap' = snap
    /\ UNCHANGED <<created, boots>>
    /\ UNCHANGED <<allocVars, layVars, bmVars>>

\* The bookkeeping shared by mkdir and create_file.
CreateStep(op, path, is_directory) ==
    /\ FsRunning
    /\ Called
    /\ \E r \in {NewDirEntry(Bind(fsys, disk), path, is_directory)} :
           /\ fsys' = Unbind(r.F)
           /\ disk' = r.F.dev
           /\ fs_panic' = r.F.panic
           /\ ret' = [NoRet EXCEPT !.op = op, !.path = path, !.res = r.res,
                                   !.val = r.val]
           /\ created' = IF r.res = "Ok"
                         THEN Put(created, path,
                                  [inode |-> r.val, is_directory |-> is_directory])
                         ELSE created
    /\ snap' = NoSnap
    /\ UNCHANGED <<fs_initialized, boots>>
    /\ UNCHANGED <<allocVars, layVars, bmVars>>

\* api::mkdir(name)
Mkdir(path) == CreateStep("mkdir", path, TRUE)

\* api::create_file(name)
CreateFile(path) == CreateStep("create_file", path, FALSE)

\* api::write_to_file(inode_index, text)
WriteStep(inode_index, text) ==
    /\ FsRunning
    /\ Called
    /\ \E r \in {AppendToFile(Bind(fsys, disk), inode_index, text)} :
           /\ fsys' = Unbind(r.F)
           /\ disk' = r.F.dev
           /\ fs_panic' = r.F.panic
           /\ ret' = [NoRet EXCEPT !.op = "write_to_file", !.inode = inode_index,
                                   !.res = r.res, !.val = r.val, !.data = text]
    /\ snap' = NoSnap
    /\ UNCHANGED <<fs_initialized, created, boots>>
    /\ UNCHANGED <<allocVars, layVars, bmVars>>

\* The same call, made while the file holds fewer than MaxFileBytes bytes.
WriteToFile(inode_index, text) ==
    /\ INodeView(fsys, disk, inode_index).size < MaxFileBytes
    /\ WriteStep(inode_index, text)

\* api::read_file(inode_index)
ReadFileCall(inode_index) ==
    /\ FsRunning
    /\ Called
    /\ \E r \in {ReadFile(Bind(fsys, disk), inode_index)} :
           /\ fsys' = Unbind(r.F)
           /\ disk' = r.F.dev
           /\ fs_panic' = r.F.panic
           /\ ret' = [NoRet EXCEPT !.op = "read_file", !.inode = inode_index,
                                   !.res = r.res, !.data = r.content]
    /\ snap' = NoSnap
    /\ UNCHANGED <<fs_initialized, created, boots>>
    /\ UNCHANGED <<allocVars, layVars, bmVars>>

\* api::flush()
FlushCall ==
    /\ FsRunning
    /\ Called
    /\ \E F1 \in {Flush(Bind(fsys, disk))} :
           /\ fsys' = Unbind(F1)
           /\ disk' = F1.dev
           /\ snap' = SnapOf(Unbind(F1), F1.dev)
    /\ ret' = [NoRet EXCEPT !.op = "flush", !.res = "Ok"]
    /\ UNCHANGED <<fs_initialized, fs_panic, created, boots>>
    /\ UNCHANGED <<allocVars, layVars, bmVars>>

\* Power cycle after a flush: the statics FS and FS_INITIALIZED start over,
\* the device keeps its blocks.
Reboot ==
    /\ boots < MaxBoots
    /\ FsRunning
    /\ snap.valid
    /\ boots' = boots + 1
    /\ fsys' = NoFs
    /\ fs_initialized' = FALSE
    /\ fs_panic' = FALSE
    /\ created' = EmptyMap
    /\ ret' = [NoRet EXCEPT !.op = "reboot"]
    /\ UNCHANGED <<disk, snap, calls>>
    /\ UNCHANGED <<allocVars, layVars, bmVars>>

(***************************************************************************)
(*                           SPECIFICATIONS                                *)
(***************************************************************************)

\* The allocator, the filesystem idle.
Init ==
    /\ \E s \in HeapStarts : AllocatorStart(s)
    /\ FsStart
    /\ lay = NoLayoutRun
    /\ bmap = NoBitmapRun

Next ==
    \/ AllocatorInit
    \/ \E lsize \in AllocSizes, lalign \in AllocAligns : Alloc(lsize, lalign)
    \/ \E ptr \in DOMAIN live : Dealloc(ptr)

Spec == Init /\ [][Next]_vars

\* The filesystem over a device that starts blank, the allocator idle.
InitFs ==
    /\ AllocatorStart(4096)
    /\ FsStart
    /\ lay = NoLayoutRun
    /\ bmap = NoBitmapRun

NextFs ==
    \/ InitWithDevice
    \/ \E path \in Paths : Mkdir(path)
    \/ \E path \in Paths : CreateFile(path)
    \/ \E i \in INodeArgs, text \in Texts : WriteToFile(i, text)
    \/ \E i \in INodeArgs : ReadFileCall(i)
    \/ FlushCall
    \/ Reboot

SpecFs == InitFs /\ [][NextFs]_vars

\* ---- a root directory with one free entry left ----
\* The root holds ".", ".." and FillCount files: one entry short of its
\* BlocksPerINode * DIR_ENTRY_PER_BLOCK.
FillCount == BlocksPerINode * DIR_ENTRY_PER_BLOCK - 3

\* The k-th of the files: "/" and two letters.
FillPath(k) == <<Slash, 97 + (k \div 26), 97 + (k % 26)>>

\* create_file(FillPath(k)) for k = lo .. hi, in this order.
RECURSIVE FillRange(_, _, _)
FillRange(F, lo, hi) ==
    IF lo > hi THEN F
    ELSE IF lo = hi THEN NewDirEntry(F, FillPath(lo), FALSE).F
    ELSE Let(FillRange(F, lo, (lo + hi) \div 2), LAMBDA F1 :
             FillRange(F1, (lo + hi) \div 2 + 1, hi))

\* The filesystem after init_with_device on a blank device and the
\* create_file calls above.
FilledRoot ==
    Let(NewWithDevice(EmptyMap), LAMBDA F0 :
    Let(CreateEmptyRoot(F0), LAMBDA F1 : FillRange(F1, 1, FillCount)))

\* "/x" and "/y"
FullPaths == {<<Slash, 120>>, <<Slash, 121>>}

InitFull ==
    /\ AllocatorStart(4096)
    /\ \E F \in {FilledRoot} :
           /\ disk = F.dev
           /\ fsys = Unbind(F)
           /\ fs_panic = F.panic
    /\ fs_initialized = TRUE
    /\ ret = NoRet
    /\ created = [path \in {FillPath(k) : k \in 1..FillCount} |->
                     [inode |-> CHOOSE k \in 1..FillCount : FillPath(k) = path,
                      is_directory |-> FALSE]]
    /\ snap = NoSnap
    /\ boots = 0
    /\ calls = 0
    /\ lay = NoLayoutRun
    /\ bmap = NoBitmapRun

NextFull ==
    \/ \E path \in FullPaths : Mkdir(path)
    \/ \E path \in FullPaths : CreateFile(path)
    \/ FlushCall

SpecFsFull == InitFull /\ [][NextFull]_vars

\* ---- a file and a directory to write to ----
\* "/d"
PathD == <<Slash, 100>>

\* n times the byte b
Repeat(b, n) == [i \in 1..n |-> b]

MAX_FILE_SIZE == BlocksPerINode * BLOCK_SIZE

\* The texts written: "hi", "é" (two bytes), "A" * 511, "B" * 513,
\* "A" * 511 followed by "é", and "A" * MAX_FILE_SIZE.
TextHi == <<104, 105>>
TextE == <<195, 169>>
TextA == Repeat(65, BLOCK_SIZE - 1)
TextB == Repeat(66, BLOCK_SIZE + 1)
TextAE == TextA \o TextE
TextMax == Repeat(65, MAX_FILE_SIZE)
FileTexts == {TextHi, TextE, TextA, TextB, TextAE, TextMax}

\* The paths of the create calls: "/f" and "/d" are taken, "/a/b" has no
\* "/a" to stand in.
FilePaths == {PathF, PathD, PathAB}

\* The filesystem after init_with_device on a blank device,
\* create_file("/f") and mkdir("/d").
FileAndDirectory ==
    Let(NewWithDevice(EmptyMap), LAMBDA F0 :
    Let(CreateEmptyRoot(F0), LAMBDA F1 :
    Let(NewDirEntry(F1, PathF, FALSE), LAMBDA r1 :
    Let(NewDirEntry(r1.F, PathD, TRUE), LAMBDA r2 :
        [F |-> r2.F, file |-> r1.val, directory |-> r2.val]))))

InitFile ==
    /\ AllocatorStart(4096)
    /\ \E r \in {FileAndDirectory} :
           /\ disk = r.F.dev
           /\ fsys = Unbind(r.F)
           /\ fs_panic = r.F.panic
           /\ created = Put(Put(EmptyMap, PathF,
                                [inode |-> r.file, is_directory |-> FALSE]),
                            PathD, [inode |-> r.directory, is_directory |-> TRUE])
    /\ fs_initialized = TRUE
    /\ ret = NoRet
    /\ snap = NoSnap
    /\ boots = 0
    /\ calls = 3
    /\ lay = NoLayoutRun
    /\ bmap = NoBitmapRun

NextFile ==
    \/ \E path \in FilePaths : Mkdir(path)
    \/ \E path \in FilePaths : CreateFile(path)
    \/ \E i \in INodeArgs, text \in FileTexts : WriteStep(i, text)
    \/ \E i \in INodeArgs : ReadFileCall(i)

SpecFsFile == InitFile /\ [][NextFile]_vars

\* ---- two files to append to in turn ----
\* The run makes MaxAppends calls of write_to_file.
MaxAppends == 3

\* "/g"
PathG == <<Slash, 103>>

\* "C" * 5
TextC == Repeat(67, 5)

TwoTexts == {TextA, TextB, TextC}

\* The filesystem after init_with_device on a blank device,
\* create_file("/f") and create_file("/g").
TwoFiles ==
    Let(NewWithDevice(EmptyMap), LAMBDA F0 :
    Let(CreateEmptyRoot(F0), LAMBDA F1 :
    Let(NewDirEntry(F1, PathF, FALSE), LAMBDA r1 :
    Let(NewDirEntry(r1.F, PathG, FALSE), LAMBDA r2 :
        [F |-> r2.F, first |-> r1.val, second |-> r2.val]))))

\* calls leaves room for MaxAppends more calls.
InitTwoFiles ==
    /\ AllocatorStart(4096)
    /\ \E r \in {TwoFiles} :
           /\ disk = r.F.dev
           /\ fsys = Unbind(r.F)
           /\ fs_panic = r.F.panic
           /\ created = Put(Put(EmptyMap, PathF,
                                [inode |-> r.first, is_directory |-> FALSE]),
                            PathG, [inode |-> r.second, is_directory |-> FALSE])
    /\ fs_initialized = TRUE
    /\ ret = NoRet
    /\ snap = NoSnap
    /\ boots = 0
    /\ calls = MaxCalls - MaxAppends
    /\ lay = NoLayoutRun
    /\ bmap = NoBitmapRun

NextTwoFiles ==
    \E i \in INodeArgs, text \in TwoTexts : WriteStep(i, text)

SpecFsTwoFiles == InitTwoFiles /\ [][NextTwoFiles]_vars

\* ---- devices that are blank, or carry somebody else's superblock ----
\* Magics that are neither 0 nor MAGIC: 1, MAGIC + 1 and MAGIC + 2^48.
ForeignMagics == {<<1, 0, 0, 0>>, <<17741, 20301, 78, 0>>, <<17740, 20301, 78, 1>>}

\* A device whose block 0 starts with a superblock of that magic.
ImageWithMagic(magic) ==
    Put(EmptyMap, 0,
        Splice(ZeroBlock, 0,
               SuperBlockToBytes([magic |-> magic, block_size |-> BLOCK_SIZE,
                                  total_blocks |-> TotalBlocks])))

\* The devices handed to init_with_device at the first power-on.
MountImages == {EmptyMap} \cup {ImageWithMagic(m) : m \in ForeignMagics}

InitMount ==
    /\ AllocatorStart(4096)
    /\ disk \in MountImages
    /\ fsys = NoFs
    /\ fs_initialized = FALSE
    /\ fs_panic = FALSE
    /\ ret = NoRet
    /\ created = EmptyMap
    /\ snap = NoSnap
    /\ boots = 0
    /\ calls = 0
    /\ lay = NoLayoutRun
    /\ bmap = NoBitmapRun

NextMount ==
    \/ InitWithDevice
    \/ \E path \in {PathA, PathF} : Mkdir(path)
    \/ \E path \in {PathA, PathF} : CreateFile(path)
    \/ FlushCall
    \/ Reboot

SpecFsMount == InitMount /\ [][NextMount]_vars

\* ---- Layout::new over devices of every size from LayoutFixed blocks up ----
\* The device has up to MaxLayoutExtra blocks after the fixed regions.
MaxLayoutExtra == 4200

LayoutTotals == LayoutFixed .. (LayoutFixed + MaxLayoutExtra)

InitLayout ==
    /\ AllocatorStart(4096)
    /\ FsStart
    /\ \E total_blocks \in LayoutTotals : lay = LayoutEntered(total_blocks)
    /\ bmap = NoBitmapRun

NextLayout ==
    \/ LayoutBreak
    \/ LayoutRetry

\* The loop is straight-line code on one hart: while it has a turn to take,
\* it takes it.
SpecLayout == InitLayout /\ [][NextLayout]_vars /\ WF_vars(NextLayout)

\* ---- the calls of a Bitmap value ----
\* At most MaxBitmapCalls calls are made on the bitmap.
MaxBitmapCalls == 3
\* An iterator that is dropped early is dropped after at most
\* MaxAbandonAfter items.
MaxAbandonAfter == 2

\* Bitmap::new(31) has one word, Bitmap::new(32) two.
NewBits == {31, 32}

\* The words a bitmap starts with: empty, full, and full but for bit 31;
\* each is what set leaves after that many calls.
WordChoices == {WordZero, WordMax, <<65535, 32767>>}

\* The bitmaps Bitmap::new(bits) and set build.
Filled(bits) ==
    {[BitmapNew(bits) EXCEPT !.arr = arr] :
        arr \in [1 .. BitmapNew(bits).len -> WordChoices]}

\* The bitmaps new_with_device reads back: what flush wrote for b, padded to
\* the block, through from_bytes.
Remounted(b) == BitmapFromBytes(BitmapBytes(b))

\* The indices handed to set and unset besides the one find_free returned.
BitArgs == {0, 32}

InitBitmap ==
    /\ AllocatorStart(4096)
    /\ FsStart
    /\ lay = NoLayoutRun
    /\ \E b \in Filled(31) \cup Filled(32) \cup {BitmapNew(BLOCK_SIZE)}
                \cup {Remounted(f) : f \in Filled(31)} :
           bmap = [NoBitmapRun EXCEPT !.bm = b]

\* One more call on the bitmap, none while drain_set's iterator borrows it.
BmCalled == bmap.at = -1 /\ bmap.calls < MaxBitmapCalls

BmReturn(op) == [NoBitmapRun EXCEPT !.bm = bmap.bm, !.op = op,
                                    !.calls = bmap.calls + 1]

\* bm.set(index); `after` remembers that index was the answer of the
\* find_free right before.
BmSet(index) ==
    /\ BmCalled
    /\ BitmapIndexOk(bmap.bm, index)
    /\ bmap' = [BmReturn("set") EXCEPT
                  !.bm = BitmapSet(bmap.bm, index),
                  !.after = IF bmap.op = "find_free" /\ bmap.res = index
                            THEN index ELSE -1]
    /\ UNCHANGED <<allocVars, fsVars, layVars>>

\* bm.unset(index)
BmUnset(index) ==
    /\ BmCalled
    /\ BitmapIndexOk(bmap.bm, index)
    /\ bmap' = [BmReturn("unset") EXCEPT !.bm = BitmapUnset(bmap.bm, index)]
    /\ UNCHANGED <<allocVars, fsVars, layVars>>

\* bm.find_free()
BmFindFree ==
    /\ BmCalled
    /\ bmap' = [BmReturn("find_free") EXCEPT
                  !.res = BitmapFindFree(bmap.bm),
                  !.after = IF bmap.op = "set" THEN bmap.after ELSE -1]
    /\ UNCHANGED <<allocVars, fsVars, layVars>>

\* Bitmap::from_bytes(&bm.to_bytes())
BmRoundTrip ==
    /\ BmCalled
    /\ bmap' = [BmReturn("round_trip") EXCEPT
                  !.back = BitmapFromBytes(BitmapToBytes(bmap.bm))]
    /\ UNCHANGED <<allocVars, fsVars, layVars>>

\* bm.drain_set(): the iterator exists, nothing is yielded yet.
BmDrainSet ==
    /\ BmCalled
    /\ bmap' = [BmReturn("drain_set") EXCEPT !.at = 0, !.pre = bmap.bm]
    /\ UNCHANGED <<allocVars, fsVars, layVars>>

\* next() on the iterator; with None the loop over it ends and drops it.
BmDrainNext ==
    /\ bmap.at >= 0
    /\ \E r \in {DrainNext(bmap.bm.arr, bmap.at)} :
           bmap' = [bmap EXCEPT
                      !.bm.arr = r.arr,
                      !.at = IF r.item = -1 THEN -1 ELSE r.at,
                      !.out = IF r.item = -1 THEN @ ELSE Append(@, r.item),
                      !.op = IF r.item = -1 THEN "drain_done" ELSE "drain_next"]
    /\ UNCHANGED <<allocVars, fsVars, layVars>>

\* The iterator is dropped before it returned None.
BmDrainAbandon ==
    /\ bmap.at >= 0
    /\ Len(bmap.out) <= MaxAbandonAfter
    /\ bmap' = [bmap EXCEPT !.at = -1, !.op = "drain_abandoned"]
    /\ UNCHANGED <<allocVars, fsVars, layVars>>

NextBitmap ==
    \/ \E index \in BitArgs \cup ({bmap.res} \ {-1}) : BmSet(index)
    \/ \E index \in BitArgs : BmUnset(index)
    \/ BmFindFree
    \/ BmRoundTrip
    \/ BmDrainSet
    \/ BmDrainNext
    \/ BmDrainAbandon

SpecBitmap == InitBitmap /\ [][NextBitmap]_vars

(***************************************************************************)
(*                        ALLOCATOR: THE CLAIMS                            *)
(***************************************************************************)

\* free() right after init: the single block init installed.
InitialFree == (bounds.end - bounds.start) - SizeOfFreeBlock

\* C1: once every address alloc returned has been handed back to dealloc, in
\* whatever order, free() is what it was right after init and the free list
\* is one block again.
C1_AllFreedRestoresHeap ==
    (inited /\ ~oom /\ live = EmptyMap) =>
        (Free = InitialFree /\ FreeBlocks = 1)

\* The heap is empty of allocations again after a dealloc that did not
\* directly follow its own alloc: several allocations were freed, the last
\* of them not in LIFO order with its alloc.
C1_Witness ==
    /\ inited /\ ~oom /\ live = EmptyMap
    /\ last.op = "dealloc" /\ last.reuse = NoBlock

\* C2: every address alloc returned for (size, align) is a multiple of
\* max(align, 8).
C2_ReturnedAligned ==
    \A a \in DOMAIN live : a % Max(live[a].req_align, 8) = 0

\* A 64-aligned allocation handed out while another allocation is live and
\* the free list is fragmented.
C2_Witness ==
    /\ \E a \in DOMAIN live : live[a].req_align = 64
    /\ Cardinality(DOMAIN live) >= 2
    /\ FreeBlocks >= 2

\* C3: each live allocation's user range lies inside the heap and any two
\* live user ranges are disjoint.
C3_InHeapAndDisjoint ==
    /\ \A a \in DOMAIN live :
          a >= bounds.start /\ a + live[a].req_size <= bounds.end
    /\ \A a, b \in DOMAIN live :
          a # b => (a + live[a].req_size <= b \/ b + live[b].req_size <= a)

\* MaxLive allocations live at once, one of them placed below an earlier one
\* (a hole was reused).
C3_Witness ==
    /\ Cardinality(DOMAIN live) = MaxLive
    /\ last.op = "alloc"
    /\ \E b \in DOMAIN live : last.addr < b

\* C4: alloc(l) returning A, then dealloc(A), then alloc(l) again with no
\* call in between: the second alloc returns A.
C4_ReallocSameAddress ==
    (last.op = "alloc" /\ last.reuse # NoBlock) => last.addr = last.reuse

\* The alloc-dealloc-alloc round happened in a fragmented heap, for an
\* aligned layout.
C4_Witness ==
    /\ last.op = "alloc" /\ last.reuse # NoBlock /\ last.addr = last.reuse
    /\ last.align = 64
    /\ Cardinality(DOMAIN live) >= 2
    /\ FreeBlocks >= 2

\* ---- C21 ----
\* The addresses of the free blocks, as a set.
FreeSet == {WalkList(head)[k] : k \in 1 .. FreeBlocks}

\* C21: in every state the free list is strictly ascending by address: each
\* block's next, if there is one, lies at a strictly greater address.
C21_FreeListAscending ==
    \A b \in FreeSet : fb[b].next # NoBlock => b < fb[b].next

\* A dealloc put a block between two others: three free blocks in a row.
C21_Witness ==
    /\ last.op = "dealloc" /\ last.before = 2
    /\ FreeBlocks = 3

\* ---- C22 ----
\* C22: no two free blocks are adjacent: a block ends strictly below the
\* address of its successor.
C22_NoAdjacentFreeBlocks ==
    \A b \in FreeSet :
        fb[b].next # NoBlock => b + fb[b].size < fb[b].next

\* A dealloc next to a free block left the count as it was (the two were
\* coalesced) while another free block and a live allocation remain.
C22_Witness ==
    /\ last.op = "dealloc" /\ last.before = 2
    /\ FreeBlocks = 2
    /\ live # EmptyMap

\* ---- C23 ----
\* The free blocks the region of the live allocation p touches: one that
\* ends where the region starts, one that starts where the region ends.
TouchesLeft(p) == \E x \in FreeSet : x + fb[x].size = live[p].start_addr

TouchesRight(p) == \E y \in FreeSet : live[p].start_addr + live[p].size = y

Touching(p) == (IF TouchesLeft(p) THEN 1 ELSE 0)
               + (IF TouchesRight(p) THEN 1 ELSE 0)

\* C23: a dealloc changes free_blocks() by +1 when the freed region touches
\* no free block, by 0 when it touches exactly one, by -1 when it touches
\* one on each side; the count never grows by more than one.
C23_DeallocCountChange ==
    [][\A p \in DOMAIN live :
          Dealloc(p) => /\ FreeBlocks' = FreeBlocks + 1 - Touching(p)
                        /\ FreeBlocks' <= FreeBlocks + 1]_vars

\* A dealloc closed the gap between two free blocks: one block fewer.
C23_Witness ==
    /\ last.op = "dealloc" /\ last.before >= 2
    /\ FreeBlocks = last.before - 1

\* ---- C24 ----
\* The fit test on the free block b for the layout (lsize, lalign).
Fits(b, lsize, lalign) ==
    AlignUp(b + SizeOfMetaData, Max(lalign, 8)) + AlignUp(lsize, 8)
        <= b + fb[b].size

\* C24: alloc panics with "Out of memory" exactly when no free block passes
\* the fit test, and returns an address whenever some block passes it.
C24_OutOfMemoryExactly ==
    [][\A lsize \in AllocSizes, lalign \in AllocAligns :
          Alloc(lsize, lalign) =>
              /\ oom' <=> ~\E b \in FreeSet : Fits(b, lsize, lalign)
              /\ ~oom' => last'.addr \in DOMAIN live' \ DOMAIN live]_vars

\* alloc panicked although the free list holds two blocks.
C24_Witness ==
    /\ oom /\ last.op = "alloc" /\ last.addr = NoBlock
    /\ FreeBlocks >= 2

\* alloc passed over the head of the list and carved a later block.
C24_WitnessLater ==
    /\ ~oom /\ last.op = "alloc" /\ last.addr # NoBlock
    /\ last.before >= 2
    /\ head # NoBlock /\ last.addr > head + fb[head].size

\* ---- C31 ----
\* The free blocks that pass the fit test for the layout (lsize, lalign).
Fitting(lsize, lalign) == {b \in FreeSet : Fits(b, lsize, lalign)}

\* The fitting block at the lowest address.
FirstFit(lsize, lalign) ==
    CHOOSE b \in Fitting(lsize, lalign) :
        \A c \in Fitting(lsize, lalign) : b <= c

\* C31: alloc carves the allocation out of the first free block in address
\* order that passes the fit test, and every other free block keeps its
\* address, its size and its place in the free list.
C31_FirstFit ==
    [][\A lsize \in AllocSizes, lalign \in AllocAligns :
          (Alloc(lsize, lalign) /\ ~oom') =>
              LET first == FirstFit(lsize, lalign)
              IN  /\ last'.addr = AlignUp(first + SizeOfMetaData, Max(lalign, 8))
                  /\ live'[last'.addr].start_addr >= first
                  /\ live'[last'.addr].start_addr + live'[last'.addr].size
                         <= first + fb[first].size
                  /\ \A b \in FreeSet \ {first} :
                         /\ b \in FreeSet'
                         /\ fb'[b].size = fb[b].size]_vars

\* alloc took the first fitting block although a later free block, smaller
\* than the region the allocation occupies, fits the layout too.
C31_Witness ==
    /\ last.op = "alloc" /\ last.addr # NoBlock
    /\ \E later \in FreeSet :
           /\ later > last.addr
           /\ Fits(later, last.size, last.align)
           /\ fb[later].size < live[last.addr].size

\* ---- C32 ----
\* The regions of the heap: one per free block and one per live allocation,
\* the latter as its metadata records it.
FreeRegions == {[lo |-> b, hi |-> b + fb[b].size, free |-> TRUE] : b \in FreeSet}

LiveRegions ==
    {[lo |-> live[a].start_addr, hi |-> live[a].start_addr + live[a].size,
      free |-> FALSE] : a \in DOMAIN live}

Regions == FreeRegions \cup LiveRegions

\* The initial free block.
HeapLo == AlignedPtrNew(bounds.start)

HeapHi == HeapLo + InitialFree

\* C32: the free blocks and the regions of the live allocations are
\* pairwise disjoint and cover exactly the initial free block: every byte of
\* it lies in exactly one region.
C32_RegionsPartitionHeap ==
    inited =>
        /\ \A r \in Regions : HeapLo <= r.lo /\ r.lo < r.hi /\ r.hi <= HeapHi
        /\ \A r, q \in Regions : r # q => (r.hi <= q.lo \/ q.hi <= r.lo)
        /\ \A x \in {HeapLo + 8 * k : k \in 0 .. (InitialFree \div 8) - 1} :
               \E r \in Regions : r.lo <= x /\ x < r.hi
        /\ Cardinality(FreeRegions) = FreeBlocks
        /\ Cardinality(LiveRegions) = Cardinality(DOMAIN live)

\* A live allocation took in a right remainder smaller than a block header
\* (its region ends past the bytes asked for) while free blocks and another
\* allocation lie around it.
C32_Witness ==
    /\ \E a \in DOMAIN live :
           LET end == live[a].start_addr + live[a].size
           IN  /\ end > a + AlignUp(live[a].req_size, 8)
               /\ end < a + AlignUp(live[a].req_size, 8) + RequiredSize
    /\ Cardinality(DOMAIN live) >= 2
    /\ FreeBlocks >= 1

\* ---- C33 ----
\* C33: with the heap's start and size multiples of 8, every free block
\* starts at a multiple of 8 and its size is a multiple of 8 and at least
\* the 16 bytes of its header.
C33_FreeBlocksAlignedAndSized ==
    \A b \in FreeSet :
        /\ b % MIN_ALIGN = 0
        /\ fb[b].size % MIN_ALIGN = 0
        /\ fb[b].size >= SizeOfFreeBlock

\* A split left a free block of exactly the header's size next to two live
\* allocations.
C33_Witness ==
    /\ \E b \in FreeSet : fb[b].size = SizeOfFreeBlock
    /\ Cardinality(DOMAIN live) >= 2
    /\ last.op = "alloc"

(***************************************************************************)
(*                        FILESYSTEM: THE CLAIMS                           *)
(***************************************************************************)

\* The directories that hold an entry for inode i under a name other than
\* "." and "..".
Containers(i) ==
    {d \in SetBits(fsys.inode_bitmap) :
        \E k \in 1..Len(EntriesOf(fsys, disk, d)) :
            /\ EntriesOf(fsys, disk, d)[k].inode = i
            /\ EntriesOf(fsys, disk, d)[k].name
                   \notin {DirEntryNew(DotName, 0).name, DirEntryNew(DotDotName, 0).name}}

\* C5: after a successful mkdir(p), p's directory reads as exactly "." and
\* "..", "." holding p's own inode index and ".." the inode index of the
\* directory that contains p's entry.
C5_MkdirDotAndDotDot ==
    (FsRunning /\ ret.op = "mkdir" /\ ret.res = "Ok") =>
        LET entries == EntriesOf(fsys, disk, ret.val)
        IN  /\ Len(entries) = 2
            /\ entries[1] = DirEntryNew(DotName, ret.val)
            /\ entries[2].name = DirEntryNew(DotDotName, 0).name
            /\ Containers(ret.val) # {}
            /\ \A d \in Containers(ret.val) : entries[2].inode = d

\* The inode sizes the filesystem holds for the allocated inodes.
SizesOf(fs, dev) ==
    [i \in SetBits(fs.inode_bitmap) |-> INodeView(fs, dev, i).size]

\* C6: creating again a path that was successfully created, whatever the
\* length of its final name, returns DuplicatedEntry and sets no inode or
\* data bit, changes no inode size and writes no block.
C6_DuplicateCreateChangesNothing ==
    [][\A path \in DOMAIN created :
          (Mkdir(path) \/ CreateFile(path)) =>
              /\ ret'.res = "DuplicatedEntry"
              /\ disk' = disk
              /\ fsys'.inode_bitmap = fsys.inode_bitmap
              /\ fsys'.data_bitmap = fsys.data_bitmap
              /\ SizesOf(fsys', disk') = SizesOf(fsys, disk)]_vars

\* The files that were created under a path which is an interior part of
\* `path`: their inode indices.
InteriorFiles(path) ==
    {created[q].inode : q \in {q \in DOMAIN created :
        /\ ~created[q].is_directory
        /\ Len(q) < Len(path)
        /\ SubSeq(path, 1, Len(q)) = q
        /\ path[Len(q) + 1] = Slash}}

\* C7: mkdir or create_file on a path with an interior component that is a
\* file returns NotADirectory and leaves that file's size, block slots and
\* content as they were.
C7_InteriorFileIsNotADirectory ==
    [][\A path \in Paths :
          ((Mkdir(path) \/ CreateFile(path)) /\ InteriorFiles(path) # {}) =>
              /\ ret'.res = "NotADirectory"
              /\ \A f \in InteriorFiles(path) :
                    /\ INodeView(fsys', disk', f) = INodeView(fsys, disk, f)
                    /\ ContentOf(fsys', disk', f) = ContentOf(fsys, disk, f)]_vars

\* The entries a directory can hold: BlocksPerINode blocks of
\* DIR_ENTRY_PER_BLOCK entries.
DirIsFull(index) ==
    INodeView(fsys, disk, index).size
        = BlocksPerINode * DIR_ENTRY_PER_BLOCK * SizeOfDirEntry

\* C8: mkdir or create_file of a new name in a directory whose 16 direct
\* blocks are all full returns NoSpaceForDirEntry to the caller and does
\* not panic.
C8_FullParentReturnsNoSpace ==
    [][\A path \in FullPaths \ DOMAIN created :
          ((Mkdir(path) \/ CreateFile(path)) /\ DirIsFull(0)) =>
              (ret'.res = "NoSpaceForDirEntry" /\ ~fs_panic')]_vars

\* C9: mounting a device whose superblock carries the magic allocates no
\* inode and no data block: after init the inode and data bitmaps are the
\* ones the device holds.
C9_MountAllocatesNothing ==
    (FsRunning /\ ret.op = "init" /\ ret.res = "mount") =>
        /\ fsys.inode_bitmap =
               BitmapOnDisk(disk, fsys.layout.inode_bitmap_start,
                            fsys.layout.inode_bitmap_blocks)
        /\ fsys.data_bitmap =
               BitmapOnDisk(disk, fsys.layout.data_bitmap_start,
                            fsys.layout.data_bitmap_blocks)

\* C10: after a flush, building the filesystem again over the same device
\* finds the same inode record for every allocated inode and the same set
\* bits in the inode bitmap and in the data bitmap.
C10_FlushRemountPreserves ==
    (FsRunning /\ ret.op = "init" /\ ret.res = "mount" /\ snap.valid) =>
        /\ SetBits(fsys.inode_bitmap) = snap.inode_bitmap
        /\ SetBits(fsys.data_bitmap) = snap.data_bitmap
        /\ \A i \in snap.inode_bitmap : INodeView(fsys, disk, i) = snap.inodes[i]

\* ---- C11 ----
\* C11: Layout::new(total_blocks) terminates for every total_blocks that
\* holds the fixed regions: its loop reaches the break, and there
\* data_bitmap_blocks is ceil(data_blocks / BITS_PER_BLOCK).
C11_LayoutNewTerminates ==
    <>(/\ lay.pc = "done"
       /\ lay.data_bitmap_blocks = DivCeil(LayoutDataBlocks, BITS_PER_BLOCK))

\* ---- C12 ----
\* A step of the machine is the call write_to_file(i, s).
IsWrite(i, s) ==
    /\ calls' = calls + 1
    /\ ret'.op = "write_to_file" /\ ret'.inode = i /\ ret'.data = s

\* The inodes of the files created since boot.
CreatedFiles == {created[p].inode : p \in {q \in DOMAIN created : ~created[q].is_directory}}

\* Inode i is a freshly created file: nothing was appended to it.
FreshFile(i) == i \in CreatedFiles /\ INodeView(fsys, disk, i) = EmptyFile

\* C12: one write of s (|s| <= MAX_FILE_SIZE) to a freshly created file
\* returns |s|, and a read of the file then returns exactly s, also when s
\* spans several blocks.
C12_WriteThenReadReturnsText ==
    [][\A i \in INodeArgs, s \in FileTexts :
          (IsWrite(i, s) /\ FreshFile(i)) =>
              /\ ret'.res = "Ok" /\ ret'.val = Len(s)
              /\ \E r \in {ReadFile(Bind(fsys', disk'), i)} :
                     r.res = "Ok" /\ r.content = s]_vars

\* ---- C13 ----
\* The last call appended s1 to inode i, which was a freshly created file.
FirstAppendDone(i, s1) ==
    /\ i \in CreatedFiles
    /\ ret.op = "write_to_file" /\ ret.inode = i /\ ret.res = "Ok"
    /\ ret.data = s1
    /\ INodeView(fsys, disk, i).size = Len(s1)

\* C13: s1 then s2 appended to a freshly created file: when both fit, a read
\* returns s1 \o s2; otherwise the second append returns NoSpaceInFile and
\* the file's size, block slots and readable content stay as they were.
C13_SecondAppend ==
    [][\A i \in INodeArgs, s1 \in FileTexts, s2 \in FileTexts :
          (FirstAppendDone(i, s1) /\ IsWrite(i, s2)) =>
              \E before \in {ReadFile(Bind(fsys, disk), i)},
                 after \in {ReadFile(Bind(fsys', disk'), i)} :
                  IF Len(s1) + Len(s2) <= MAX_FILE_SIZE
                  THEN /\ ret'.res = "Ok"
                       /\ after.res = "Ok" /\ after.content = s1 \o s2
                  ELSE /\ ret'.res = "NoSpaceInFile"
                       /\ INodeView(fsys', disk', i) = INodeView(fsys, disk, i)
                       /\ after.res = before.res
                       /\ after.content = before.content]_vars

\* ---- C14 ----
\* C14: a write addressed to a directory, the root included, returns
\* NotAFile and leaves the directory's size, block slots and entries alone.
C14_WriteToDirectoryIsNotAFile ==
    [][\A i \in INodeArgs, s \in FileTexts :
          (IsWrite(i, s) /\ INodeView(fsys, disk, i).is_directory) =>
              /\ ret'.res = "NotAFile"
              /\ INodeView(fsys', disk', i) = INodeView(fsys, disk, i)
              /\ EntriesOf(fsys', disk', i) = EntriesOf(fsys, disk, i)]_vars

\* A write to the root has been turned down; the root still holds ".", "..",
\* "f" and "d".
C14_Witness ==
    /\ ret.op = "write_to_file" /\ ret.res = "NotAFile"
    /\ ret.inode = 0
    /\ INodeView(fsys, disk, 0).is_directory
    /\ Len(EntriesOf(fsys, disk, 0)) = 4

\* ---- C15 ----
\* The six values of Error.
FsErrors == {"DuplicatedEntry", "DirectoryDoesNotExist", "NoSpaceForDirEntry",
             "NotAFile", "NoSpaceInFile", "NotADirectory"}

\* C15: when mkdir, create_file or write returns an Error, every block of the
\* device is what it was before the call.
C15_ErrorLeavesDeviceAlone ==
    [][(/\ calls' = calls + 1
        /\ ret'.op \in {"mkdir", "create_file", "write_to_file"}
        /\ ret'.res \in FsErrors) => disk' = disk]_vars

\* A write was turned down after an earlier write had filled the file.
C15_Witness ==
    /\ ret.op = "write_to_file" /\ ret.res = "NoSpaceInFile"
    /\ \E i \in CreatedFiles : INodeView(fsys, disk, i).size = MAX_FILE_SIZE

\* ---- C16 ----
\* A step of the machine is the call mkdir(path) or create_file(path).
IsCreate(path) ==
    /\ calls' = calls + 1
    /\ ret'.op \in {"mkdir", "create_file"} /\ ret'.path = path

\* The name an entry carries: its bytes up to the first NUL.
EntryName(entry) == SubSeq(entry.name, 1, NonZeroPrefix(entry.name, 1))

\* The components of a path between the root and its final name.
Interior(path) == SubSeq(SplitPath(path), 2, Len(SplitPath(path)) - 1)

\* Going down from directory dir along the components, one of them names no
\* entry of the directory reached so far.
RECURSIVE InteriorMissing(_, _)
InteriorMissing(dir, components) ==
    IF components = <<>> THEN FALSE
    ELSE Let(EntriesOf(fsys, disk, dir), LAMBDA entries :
         Let({k \in 1..Len(entries) : EntryName(entries[k]) = Head(components)},
             LAMBDA hits :
             IF hits = {} THEN TRUE
             ELSE InteriorMissing(
                      entries[CHOOSE k \in hits : \A j \in hits : k <= j].inode,
                      Tail(components))))

\* C16: mkdir or create_file on a path with an interior component that names
\* no entry of the directory reached so far returns DirectoryDoesNotExist
\* and sets no bit of the inode bitmap or of the data bitmap.
C16_MissingInteriorDirectory ==
    [][\A path \in Paths :
          (IsCreate(path) /\ InteriorMissing(0, Interior(path))) =>
              /\ ret'.res = "DirectoryDoesNotExist"
              /\ fsys'.inode_bitmap = fsys.inode_bitmap
              /\ fsys'.data_bitmap = fsys.data_bitmap]_vars

\* "/a/b" was asked for while the root held no "a".
C16_Witness ==
    /\ FsRunning
    /\ ret.op \in {"mkdir", "create_file"} /\ ret.path = PathAB
    /\ ret.res = "DirectoryDoesNotExist"
    /\ InteriorMissing(0, Interior(PathAB))

\* ---- C17 ----
\* A step of the machine is the first init_with_device since power-on.
IsFirstInit ==
    /\ calls' = calls + 1
    /\ ret'.op = "init" /\ ~fs_initialized

\* C17: the mount branches on the magic of block 0. Magic 0: format, the
\* superblock is the default one and both bitmaps are empty. MAGIC: mount,
\* both bitmaps are the ones their device regions hold, which after a flush
\* are the bits the filesystem had set. Any other magic: panic, and no block
\* is written.
C17_MountBranchesOnMagic ==
    [][IsFirstInit =>
          \E magic \in {SuperBlockOnDisk(disk).magic}, F0 \in {NewWithDevice(disk)} :
              IF magic = NoMagic
              THEN /\ ret'.res = "format"
                   /\ ReadSuperblock(disk).sb = DefaultSuperBlock
                   /\ SetBits(F0.inode_bitmap) = {}
                   /\ SetBits(F0.data_bitmap) = {}
              ELSE IF magic = MAGIC
              THEN /\ ret'.res = "mount"
                   /\ F0.inode_bitmap =
                          BitmapOnDisk(disk, F0.layout.inode_bitmap_start,
                                       F0.layout.inode_bitmap_blocks)
                   /\ F0.data_bitmap =
                          BitmapOnDisk(disk, F0.layout.data_bitmap_start,
                                       F0.layout.data_bitmap_blocks)
                   /\ snap.valid =>
                          /\ SetBits(F0.inode_bitmap) = snap.inode_bitmap
                          /\ SetBits(F0.data_bitmap) = snap.data_bitmap
              ELSE /\ ret'.res = "panic" /\ fs_panic'
                   /\ disk' = disk]_vars

\* All three branches were taken: a format, a mount of a flushed device ...
C17_Witness ==
    /\ ret.op = "init" /\ ret.res = "mount"
    /\ boots = 1
    /\ SuperBlockOnDisk(disk).magic = MAGIC

\* ... and a device with a foreign magic.
C17_WitnessForeign ==
    /\ ret.op = "init" /\ ret.res = "panic" /\ fs_panic
    /\ SuperBlockOnDisk(disk).magic \in ForeignMagics

\* ---- C18 ----
\* C18: after the format of an empty device, inode 0 is a directory of size
\* 2 * 28 whose entries are "." -> 0 and ".." -> 0, and bit 0 of the inode
\* bitmap is set.
C18_FormatMakesRoot ==
    (FsRunning /\ ret.op = "init" /\ ret.res = "format") =>
        /\ INodeView(fsys, disk, 0).is_directory
        /\ INodeView(fsys, disk, 0).size = 2 * SizeOfDirEntry
        /\ EntriesOf(fsys, disk, 0)
               = <<DirEntryNew(DotName, 0), DirEntryNew(DotDotName, 0)>>
        /\ BitmapIsSet(fsys.inode_bitmap, 0)

\* init_with_device has just formatted the blank device.
C18_Witness ==
    /\ FsRunning /\ ret.op = "init" /\ ret.res = "format"
    /\ boots = 0
    /\ Len(EntriesOf(fsys, disk, 0)) = 2

\* ---- C19 ----
\* C19: on a freshly formatted filesystem the allocated inode indices are
\* 0 .. n, and a mkdir or create_file that succeeds returns n + 1, the lowest
\* clear index, and sets that bit alone, whatever the parent and the kind;
\* one that returns an Error sets no bit. So the k-th success returns k.
C19_CreationsCountUp ==
    [][(/\ boots = 0
        /\ calls' = calls + 1
        /\ ret'.op \in {"mkdir", "create_file"}) =>
          \E allocated \in {SetBits(fsys.inode_bitmap)} :
              /\ allocated = 0..(Cardinality(allocated) - 1)
              /\ ret'.res \in FsErrors \cup {"Ok"}
              /\ IF ret'.res = "Ok"
                 THEN /\ ret'.val = Cardinality(allocated)
                      /\ SetBits(fsys'.inode_bitmap) = allocated \cup {ret'.val}
                 ELSE fsys'.inode_bitmap = fsys.inode_bitmap]_vars

\* "/a/b" was the third success, after creations in the root and after a
\* call that was not a success.
C19_Witness ==
    /\ boots = 0
    /\ ret.op = "mkdir" /\ ret.path = PathAB /\ ret.res = "Ok" /\ ret.val = 3
    /\ calls = 5
    /\ PathF \in DOMAIN created /\ ~created[PathF].is_directory

\* ---- C20 ----
\* The final name of a path, and the inode of the directory it was created
\* in.
LastName(path) == SplitPath(path)[Len(SplitPath(path))]

ParentPath(path) == SubSeq(path, 1, Len(path) - Len(LastName(path)) - 1)

ParentOf(path) ==
    IF ParentPath(path) = <<>> THEN 0
    ELSE IF ParentPath(path) \in DOMAIN created THEN created[ParentPath(path)].inode
    ELSE -1

\* The directories: the root and what mkdir made since boot.
Directories ==
    {0} \cup {created[q].inode : q \in {p \in DOMAIN created : created[p].is_directory}}

ChildrenOf(d) == {q \in DOMAIN created : ParentOf(q) = d}

\* C20: a directory reads as size / 28 entries in the order of their
\* appending: ".", "..", then one entry for each child created in that
\* directory, with the child's name and inode index, and nothing else.
C20_DirectoryListsItsChildren ==
    (FsRunning /\ boots = 0) =>
        \A d \in Directories :
            \E entries \in {EntriesOf(fsys, disk, d)} :
                /\ Len(entries) = INodeView(fsys, disk, d).size \div SizeOfDirEntry
                /\ Len(entries) = 2 + Cardinality(ChildrenOf(d))
                /\ EntryName(entries[1]) = DotName
                /\ EntryName(entries[2]) = DotDotName
                /\ \A q \in ChildrenOf(d) :
                       \E k \in 3..Len(entries) :
                           /\ EntryName(entries[k]) = LastName(q)
                           /\ entries[k].inode = created[q].inode
                /\ \A k \in 3..(Len(entries) - 1) :
                       entries[k].inode < entries[k + 1].inode

\* ---- C25 ----
\* The indices that hold a record in the cache (Some), and the ones whose
\* dirty bit is set.
CachedINodes(fs) == {i \in 0 .. Len(fs.inodes) - 1 : fs.inodes[i + 1] # <<>>}

DirtyINodes(fs) ==
    {i \in 0 .. 32 * Len(fs.dirty.arr) - 1 : BitmapIsSet(fs.dirty, i)}

\* C25: when flush has completed no inode is marked dirty, every inode
\* that was dirty stands in its slot of the inode table as the cache held
\* it, and every inode that was cached is still cached with the same record.
C25_FlushCleansAndKeeps ==
    [][FlushCall =>
          /\ DirtyINodes(fsys') = {}
          /\ \A i \in DirtyINodes(fsys) :
                 ReadFromDisk(Bind(fsys', disk'), i) = fsys.inodes[i + 1][1]
          /\ \A i \in CachedINodes(fsys) :
                 /\ i \in CachedINodes(fsys')
                 /\ fsys'.inodes[i + 1] = fsys.inodes[i + 1]]_vars

\* A flush has just written two inodes that changed after their creation:
\* the root with a third entry and a second inode that is not empty, both
\* of which reach the inode table through flush alone.
C25_Witness ==
    /\ FsRunning /\ ret.op = "flush"
    /\ DirtyINodes(fsys) = {}
    /\ ReadFromDisk(Bind(fsys, disk), 0).size >= 3 * SizeOfDirEntry
    /\ ReadFromDisk(Bind(fsys, disk), 1).size > 0
    /\ {0, 1} \subseteq CachedINodes(fsys)

\* ---- C26 ----
\* What get and get_mut do in the filesystem (fs, dev), for every index of
\* the cache's Vec and the one past its end: on a cached inode no
\* read_block and the cached record; on an uncached one a single
\* read_block, of the block inode_to_block names, the record decoded from
\* it, and no read_block on the access after that.
CacheShortCircuits(fs, dev) ==
    \A i \in 0 .. Len(fs.inodes) :
        LET F == Bind(fs, dev)
            g == CacheGetTraced(F, i)
            m == CacheGetMutTraced(F, i)
        IN  IF i \in CachedINodes(fs)
            THEN /\ g.reads = <<>> /\ m.reads = <<>>
                 /\ INodeAt(g.F, i) = fs.inodes[i + 1][1]
                 /\ INodeAt(m.F, i) = fs.inodes[i + 1][1]
            ELSE /\ g.reads = <<INodeToBlock(fs.layout, i).block>>
                 /\ m.reads = <<INodeToBlock(fs.layout, i).block>>
                 /\ INodeAt(g.F, i) = ReadFromDisk(F, i)
                 /\ INodeAt(m.F, i) = ReadFromDisk(F, i)
                 /\ CacheGetTraced(g.F, i).reads = <<>>
                 /\ CacheGetMutTraced(g.F, i).reads = <<>>
                 /\ CacheGetTraced(m.F, i).reads = <<>>

\* C26: once an inode is in the cache it stays there while the filesystem
\* runs, and get and get_mut return the cached record without a read_block;
\* the first access of an uncached inode issues one read_block, of the
\* block inode_to_block gives.
C26_CachedINodeIsNotReadAgain ==
    [][/\ (fs_initialized' /\ ~fs_panic') => CacheShortCircuits(fsys', disk')
       /\ (fs_initialized /\ fs_initialized' /\ ~fs_panic') =>
              CachedINodes(fsys) \subseteq CachedINodes(fsys')]_vars

\* After a power cycle the path walk of a mkdir fetched the old root from
\* the device; it is cached now, next to inodes that are not, and its
\* cached record is no longer the one in the inode table.
C26_Witness ==
    /\ FsRunning /\ boots = 1
    /\ ret.op = "mkdir" /\ ret.res = "Ok"
    /\ 0 \in CachedINodes(fsys)
    /\ \E i \in 0 .. Len(fsys.inodes) - 1 : i \notin CachedINodes(fsys)
    /\ fsys.inodes[1][1] # ReadFromDisk(Bind(fsys, disk), 0)

\* ---- C27 ----
\* C27: init_with_device is one-shot. The first call sets FS_INITIALIZED and
\* installs the filesystem; every later call returns with the Filesystem
\* struct (bitmaps, cache, layout), the flag and the device as they were.
C27_InitIsOneShot ==
    [][InitWithDevice =>
          IF fs_initialized
          THEN /\ fsys' = fsys /\ disk' = disk
               /\ fs_initialized' /\ ~fs_panic'
               /\ created' = created
          ELSE /\ fs_initialized'
               /\ ~fs_panic' => /\ fsys' # NoFs
                                /\ fsys'.inode_bitmap.len > 0
                                /\ CachedINodes(fsys') # {}]_vars

\* A second init_with_device returned on a filesystem that holds created
\* entries and unflushed inodes.
C27_Witness ==
    /\ ret.op = "init" /\ ret.res = "again"
    /\ FsRunning
    /\ created # EmptyMap
    /\ DirtyINodes(fsys) # {}

AllocatedINodes(fs) == SetBits(fs.inode_bitmap)

SlotsOf(inode) == {inode.blocks[k] : k \in 1 .. BlocksPerINode} \ {0}

\* What read_file or read_dir_entry finds behind inode j.
Readable(fs, dev, j) ==
    IF INodeView(fs, dev, j).is_directory
    THEN EntriesOf(fs, dev, j)
    ELSE ContentOf(fs, dev, j)

SlotsNeeded(inode) ==
    IF inode.is_directory
    THEN DivCeil(inode.size \div SizeOfDirEntry, DIR_ENTRY_PER_BLOCK)
    ELSE DivCeil(inode.size, BLOCK_SIZE)

UsedSlots(fs, dev) ==
    {p \in AllocatedINodes(fs) \X (1 .. BlocksPerINode) :
        INodeView(fs, dev, p[1]).blocks[p[2]] # 0}

BlockAt(fs, dev, p) == INodeView(fs, dev, p[1]).blocks[p[2]]

C38_CleanINodeEqualsDevice ==
    FsRunning =>
        \A j \in CachedINodes(fsys) \ DirtyINodes(fsys) :
            fsys.inodes[j + 1][1] = ReadFromDisk(Bind(fsys, disk), j)

\* After a create: the new inode is cached and clean with its record on the
\* device, its parent is cached and dirty and differs from the device, and
\* an inode that an earlier flush wrote is clean with a size above zero.
C38_Witness ==
    /\ FsRunning /\ ret.res = "Ok" /\ ret.op \in {"mkdir", "create_file"}
    /\ \E d \in CachedINodes(fsys) \cap DirtyINodes(fsys) :
           fsys.inodes[d + 1][1] # ReadFromDisk(Bind(fsys, disk), d)
    /\ \E n \in CachedINodes(fsys) \ DirtyINodes(fsys) :
           /\ n > 0
           /\ fsys.inodes[n + 1][1].size = 0
    /\ \E c \in CachedINodes(fsys) \ DirtyINodes(fsys) :
           fsys.inodes[c + 1][1].size > 0

\* ---- C39 ----
\* C39: no directory holds two entries with the same stored name (the 24
\* bytes of DirEntry.name), whatever the length of the names the entries
\* were created with.
C39_StoredNamesAreUnique ==
    FsRunning =>
        \A d \in AllocatedINodes(fsys) :
            INodeView(fsys, disk, d).is_directory =>
                \E entries \in {EntriesOf(fsys, disk, d)} :
                    \A k, l \in 1 .. Len(entries) :
                        entries[k].name = entries[l].name => k = l

\* ---- C40 ----
\* C40: the inode bitmap and the data bitmap of the running filesystem,
\* also of one that was mounted from the device, have exactly len words, so
\* that the index find_free answers lies in the words to_bytes writes.
C40_BitmapHasLenWords ==
    FsRunning =>
        \A bm \in {fsys.inode_bitmap, fsys.data_bitmap} :
            /\ Len(bm.arr) = bm.len
            /\ BitmapFindFree(bm) < 32 * bm.len

(***************************************************************************)
(*                           BITMAP: THE CLAIMS                            *)
(***************************************************************************)

\* The indices of the storage: 32 for each word of arr.
BitIndices(bm) == 0 .. 32 * Len(bm.arr) - 1

ClearIndices(bm) == {i \in BitIndices(bm) : ~BitmapIsSet(bm, i)}

SetIndices(bm) == {i \in BitIndices(bm) : BitmapIsSet(bm, i)}

\* The least element of a set of indices, -1 for the empty set.
Lowest(S) == IF S = {} THEN -1 ELSE CHOOSE i \in S : \A j \in S : i <= j

\* ---- C28 ----
\* C28: find_free returns the lowest index whose bit is 0 over all bits of
\* the storage, and None exactly when every bit is set; on a bitmap with no
\* bit set it returns 0; after set(i) of the index i it returned, the next
\* find_free returns the lowest clear index above i.
C28_FindFreeLowestClear ==
    bmap.op = "find_free" =>
        /\ bmap.res = Lowest(ClearIndices(bmap.bm))
        /\ bmap.res = -1 <=> SetIndices(bmap.bm) = BitIndices(bmap.bm)
        /\ SetIndices(bmap.bm) = {} => bmap.res = 0
        /\ bmap.after # -1 =>
               bmap.res = Lowest({i \in ClearIndices(bmap.bm) : i > bmap.after})

\* find_free answered 31, set(31) filled the first word, and the next
\* find_free answered from the second word.
C28_Witness ==
    /\ bmap.op = "find_free" /\ bmap.after = 31
    /\ bmap.res >= 32

\* find_free answered None on a bitmap of two full words.
C28_WitnessNone ==
    /\ bmap.op = "find_free" /\ bmap.res = -1
    /\ Len(bmap.bm.arr) = 2

\* ---- C29 ----
\* The indices a sequence of yielded items holds.
Yielded(out) == {out[k] : k \in 1 .. Len(out)}

\* C29: what drain_set's iterator has yielded so far is strictly ascending,
\* holds only indices that were set, and lies below every set index still
\* to come; exactly the indices not yet yielded are still set. Consumed to
\* the end it has yielded every index that was set and no bit is set;
\* abandoned early, the rest stay set.
C29_DrainSetYieldsAscending ==
    (bmap.at >= 0 \/ bmap.op \in {"drain_done", "drain_abandoned"}) =>
        LET was == SetIndices(bmap.pre)
            got == Yielded(bmap.out)
        IN  /\ \A k \in 1 .. Len(bmap.out) - 1 : bmap.out[k] < bmap.out[k + 1]
            /\ got \subseteq was
            /\ \A i \in was \ got : \A j \in got : j < i
            /\ SetIndices(bmap.bm) = was \ got
            /\ bmap.op = "drain_done" =>
                   /\ got = was
                   /\ SetIndices(bmap.bm) = {}
                   /\ bmap.out = BitmapDrainSet(bmap.pre)
                   /\ bmap.bm = BitmapDrained(bmap.pre)

\* The iterator was consumed to the end over two words with bits in both.
C29_Witness ==
    /\ bmap.op = "drain_done"
    /\ Len(bmap.out) >= 4
    /\ bmap.out[1] < 32 /\ bmap.out[Len(bmap.out)] >= 32

\* The iterator was dropped after two items with more to come.
C29_WitnessAbandoned ==
    /\ bmap.op = "drain_abandoned"
    /\ Len(bmap.out) = 2
    /\ SetIndices(bmap.bm) # {}

\* ---- C30 ----
\* C30: from_bytes(to_bytes(b)) is b for every bitmap b: the same len, the
\* same words.
C30_RoundTripIsIdentity ==
    bmap.op = "round_trip" => bmap.back = bmap.bm

====
